---- MODULE Spec2Model ----
(***************************************************************************)
(* The college recommendation pipeline: claim verification                 *)
(* (CollegeVerificationService, src/src/services/verification_service.py)  *)
(* and the request path through retrieval, budget filter, generation,      *)
(* re-scoring, verification and truncation (CollegeRecommendationService,  *)
(* src/src/services/college_recommendation_service.py, with                *)
(* rag_pipeline.py and llm_service.py).                                    *)
(*                                                                         *)
(* Python strings are sequences of one-character strings, so that the      *)
(* cache key (an f-string concatenation), the substring tests and the      *)
(* regular expressions are computed on the characters, as the code does.   *)
(* Floats with one fractional digit are integers in tenths (95.0 = 950),   *)
(* confidences are integers in hundredths (0.95 = 95), datetimes are       *)
(* seconds since the service was constructed.  Weights are integers in     *)
(* hundredths and their sum is computed on IEEE doubles, as sum() does;    *)
(* composite scores are exact fractions.                                   *)
(***************************************************************************)
EXTENDS Integers, Sequences, FiniteSets, TLC

VARIABLES
    verification_cache,   \* self.verification_cache: cache_key -> VerificationResult
    now,                  \* datetime.now(), in seconds
    pool,                 \* the requests the callers of this run make
    last_op,              \* the operation that ran last
    calls,                \* the verify_college_claim calls made by the last operation, in order
    stored_by,            \* cache_key -> the (claim, college_name, claim_type) whose call stored the entry
    result,               \* what the last verify_college_claim returned
    recs_before,          \* the list handed to the last verify_recommendations, as it was
    recommendations,      \* that list as verify_recommendations returned it
    verification_results, \* per recommendation, its verification_results list
    raised,               \* TRUE iff the last operation of the verification service ended by raising
    vectorstore,          \* rag_pipeline.vectorstore: None, or its documents by similarity
    last_request,         \* the RecommendationRequest built last
    last_run,             \* the last get_recommendations: its locals, its stages, how it ended
    last_rescoring,       \* the last direct _apply_preferences: arguments and outcome
    threads               \* per thread inside verify_college_claim: its position and locals

vars ==
    <<verification_cache, now, pool, last_op, calls, stored_by, result,
      recs_before, recommendations, verification_results, raised,
      vectorstore, last_request, last_run, last_rescoring, threads>>

(***************************************************************************)
(* String literals of the source.                                          *)
(***************************************************************************)
\* key of the simulated reference tables
IIT_DELHI ==
    <<"I","n","d","i","a","n"," ","I","n","s","t","i","t","u","t","e"," ","o","f"," ","T","e","c","h","n","o","l","o","g","y"," ","D","e","l","h","i">>
DELHI_UNIVERSITY ==
    <<"U","n","i","v","e","r","s","i","t","y"," ","o","f"," ","D","e","l","h","i">>
IISC_BANGALORE ==
    <<"I","n","d","i","a","n"," ","I","n","s","t","i","t","u","t","e"," ","o","f"," ","S","c","i","e","n","c","e"," ","B","a","n","g","a","l","o","r","e">>
\* a name absent from every reference table (tests/test_services.py)
TEST_COLLEGE ==
    <<"T","e","s","t"," ","C","o","l","l","e","g","e">>
\* the accreditation vocabulary scanned for in a claim
NAAC ==
    <<"N","A","A","C">>
NBA ==
    <<"N","B","A">>
AICTE ==
    <<"A","I","C","T","E">>
UGC ==
    <<"U","G","C">>
\* accreditation grade as the reference tables spell it
NAAC_A_PLUS_PLUS ==
    <<"N","A","A","C"," ","A","+","+">>
\* program names of the AICTE table
COMPUTER_SCIENCE ==
    <<"C","o","m","p","u","t","e","r"," ","S","c","i","e","n","c","e">>
ELECTRICAL_ENGINEERING ==
    <<"E","l","e","c","t","r","i","c","a","l"," ","E","n","g","i","n","e","e","r","i","n","g">>
COMMERCE ==
    <<"C","o","m","m","e","r","c","e">>
RESEARCH ==
    <<"R","e","s","e","a","r","c","h">>
\* claim_type values
PLACEMENT ==
    <<"p","l","a","c","e","m","e","n","t">>
ACCREDITATION ==
    <<"a","c","c","r","e","d","i","t","a","t","i","o","n">>
PROGRAM ==
    <<"p","r","o","g","r","a","m">>
GENERAL ==
    <<"g","e","n","e","r","a","l">>
\* literal parts of the f-strings and regular expressions
PLACEMENT_PREFIX ==
    <<"P","l","a","c","e","m","e","n","t"," ","p","e","r","c","e","n","t","a","g","e",":"," ">>
ACCREDITED_BY ==
    <<"A","c","c","r","e","d","i","t","e","d"," ","b","y",":"," ">>
COMMA_SPACE ==
    <<","," ">>
OFFERS_ ==
    <<"O","f","f","e","r","s"," ">>
_WITH_ ==
    <<" ","w","i","t","h"," ">>
_SEATS ==
    <<" ","s","e","a","t","s">>
VERIFICATION_PREFIX ==
    <<"V","e","r","i","f","i","c","a","t","i","o","n",":"," ">>
CONFIDENCE_PREFIX ==
    <<" ","(","C","o","n","f","i","d","e","n","c","e",":"," ">>
TRUE_STR ==
    <<"T","r","u","e">>
FALSE_STR ==
    <<"F","a","l","s","e">>
\* the colleges, programs and links of MockLLM.invoke (llm_service.py)
NIT_SRINAGAR ==
    <<"N","a","t","i","o","n","a","l"," ","I","n","s","t","i","t","u","t","e"," ","o","f"," ","T","e","c","h","n","o","l","o","g","y"," ","S","r","i","n","a","g","a","r">>
UNIVERSITY_OF_JAMMU ==
    <<"U","n","i","v","e","r","s","i","t","y"," ","o","f"," ","J","a","m","m","u">>
UNIVERSITY_OF_KASHMIR ==
    <<"U","n","i","v","e","r","s","i","t","y"," ","o","f"," ","K","a","s","h","m","i","r">>
NAAC_A ==
    <<"N","A","A","C"," ","A">>
BTECH_CSE ==
    <<"B","a","c","h","e","l","o","r"," ","o","f"," ","T","e","c","h","n","o","l","o","g","y"," ","i","n"," ","C","o","m","p","u","t","e","r"," ","S","c","i","e","n","c","e"," ","a","n","d"," ","E","n","g","i","n","e","e","r","i","n","g">>
BTECH_IT ==
    <<"B","a","c","h","e","l","o","r"," ","o","f"," ","T","e","c","h","n","o","l","o","g","y"," ","i","n"," ","I","n","f","o","r","m","a","t","i","o","n"," ","T","e","c","h","n","o","l","o","g","y">>
NITSRI_LINK ==
    <<"h","t","t","p","s",":","/","/","w","w","w",".","n","i","t","s","r","i",".","a","c",".","i","n">>
NIRF_HTTPS_LINK ==
    <<"h","t","t","p","s",":","/","/","w","w","w",".","n","i","r","f",".","a","c",".","i","n">>
JAMMU_LINK ==
    <<"h","t","t","p","s",":","/","/","w","w","w",".","j","a","m","m","u","u","n","i","v","e","r","s","i","t","y",".","a","c",".","i","n">>
UGC_HTTPS_LINK ==
    <<"h","t","t","p","s",":","/","/","w","w","w",".","u","g","c",".","a","c",".","i","n">>
KASHMIR_LINK ==
    <<"h","t","t","p","s",":","/","/","w","w","w",".","k","a","s","h","m","i","r","u","n","i","v","e","r","s","i","t","y",".","n","e","t">>
\* defaults of generate_recommendations
UNKNOWN_COLLEGE ==
    <<"U","n","k","n","o","w","n"," ","C","o","l","l","e","g","e">>
UNKNOWN_PROGRAM ==
    <<"U","n","k","n","o","w","n"," ","P","r","o","g","r","a","m">>
\* literal parts of the patterns of _extract_recommendations_manual
RANK_COLON ==
    <<"R","a","n","k",":">>
COLLEGE_NAME_COLON ==
    <<"C","o","l","l","e","g","e"," ","N","a","m","e",":">>
COLLEGE_ID_PREFIX ==
    <<"c","o","l","l","e","g","e","_">>
SOURCE_PENDING ==
    <<"S","o","u","r","c","e"," ","v","e","r","i","f","i","c","a","t","i","o","n"," ","p","e","n","d","i","n","g">>
EXAMPLE_LINK ==
    <<"h","t","t","p","s",":","/","/","e","x","a","m","p","l","e",".","c","o","m">>

(***************************************************************************)
(* Python built-ins used by the service.                                   *)
(***************************************************************************)
None == [none |-> TRUE]

\* a local variable: the value v is computed once and named in the body F
With(v, F(_)) == F(v)

\* min(S) of a non-empty set of ints
Min(S) == CHOOSE a \in S : \A b \in S : a <= b

\* an exception in flight, in place of a returned value
Raise(exc) == [raised |-> exc]

IsRaise(v) == "raised" \in DOMAIN v

\* a list returned by a call that could have raised instead
Return(value) == [value |-> value]

\* truthiness of an Optional[dict] whose dicts are never empty
Truthy(d) == d # None

Digits == <<"0","1","2","3","4","5","6","7","8","9">>

IsDigit(c) == \E d \in 1..10 : Digits[d] = c

DigitVal(c) == (CHOOSE d \in 1..10 : Digits[d] = c) - 1

UpperCase ==
    <<"A","B","C","D","E","F","G","H","I","J","K","L","M",
      "N","O","P","Q","R","S","T","U","V","W","X","Y","Z">>

LowerCase ==
    <<"a","b","c","d","e","f","g","h","i","j","k","l","m",
      "n","o","p","q","r","s","t","u","v","w","x","y","z">>

\* str.lower()
PyLower(s) ==
    [i \in 1..Len(s) |->
        IF \E k \in 1..26 : UpperCase[k] = s[i]
        THEN LowerCase[CHOOSE k \in 1..26 : UpperCase[k] = s[i]]
        ELSE s[i]]

\* the literal lit stands in s at position p
LitAt(s, p, lit) ==
    /\ p >= 1
    /\ p + Len(lit) - 1 <= Len(s)
    /\ \A t \in 1..Len(lit) : s[p + t - 1] = lit[t]

\* sub in s
Contains(s, sub) == \E p \in 1..(Len(s) - Len(sub) + 1) : LitAt(s, p, sub)

\* x in list
InList(x, list) == \E i \in 1..Len(list) : list[i] = x

\* the end of the maximal digit run that starts at p: the first position that
\* holds no digit (Len(s) + 1 when the run reaches the end of s)
DigitRunEnd(s, p) ==
    CHOOSE q \in p..(Len(s) + 1) :
        /\ q = Len(s) + 1 \/ ~IsDigit(s[q])
        /\ \A t \in p..(q - 1) : IsDigit(s[t])

RECURSIVE DigitsValue(_)
DigitsValue(ds) ==
    IF ds = <<>> THEN 0
    ELSE 10 * DigitsValue(SubSeq(ds, 1, Len(ds) - 1)) + DigitVal(ds[Len(ds)])

\* the default limit of CPython's str -> int conversion
int_max_str_digits == 4300

\* int(digits): the exception, or the int as [value |-> n]
PyInt(ds) ==
    IF Len(ds) > int_max_str_digits
    THEN Raise("ValueError")
    ELSE [value |-> DigitsValue(ds)]

\* float(text) for text matching \d+(\.\d+)?, as the exact fraction num / den
PyFloat(text) ==
    LET dot == {p \in 1..Len(text) : text[p] = "."}
    IN  IF dot = {}
        THEN [num |-> DigitsValue(text), den |-> 1]
        ELSE LET p == CHOOSE q \in dot : TRUE
                 frac == SubSeq(text, p + 1, Len(text))
             IN  [num |-> DigitsValue(SubSeq(text, 1, p - 1) \o frac),
                  den |-> 10 ^ Len(frac)]

RECURSIVE PyStrNat(_)
PyStrNat(n) ==
    IF n < 10 THEN <<Digits[n + 1]>>
    ELSE PyStrNat(n \div 10) \o <<Digits[(n % 10) + 1]>>

\* str(n) of an int
PyStrInt(n) == IF n < 0 THEN <<"-">> \o PyStrNat(0 - n) ELSE PyStrNat(n)

\* str(x) of a float x = tenths / 10
PyStrFloat(tenths) ==
    IF tenths < 0
    THEN <<"-">> \o PyStrNat((0 - tenths) \div 10) \o <<".">> \o PyStrNat((0 - tenths) % 10)
    ELSE PyStrNat(tenths \div 10) \o <<".">> \o PyStrNat(tenths % 10)

\* str(b) of a bool
PyStrBool(b) == IF b THEN TRUE_STR ELSE FALSE_STR

\* format(x, ".2f") of a float x = hundredths / 100 in [0, 1]
PyFormat2f(hundredths) ==
    PyStrNat(hundredths \div 100) \o <<".">>
        \o PyStrNat((hundredths % 100) \div 10) \o PyStrNat(hundredths % 10)

\* sep.join(parts)
RECURSIVE PyJoin(_, _)
PyJoin(sep, parts) ==
    IF parts = <<>> THEN <<>>
    ELSE IF Len(parts) = 1 THEN parts[1]
    ELSE parts[1] \o sep \o PyJoin(sep, Tail(parts))

Abs(x) == IF x < 0 THEN 0 - x ELSE x

(***************************************************************************)
(* The simulated reference tables.  placement is in tenths of a percent.   *)
(***************************************************************************)
nirf_database ==
    [name \in {IIT_DELHI, DELHI_UNIVERSITY, IISC_BANGALORE} |->
        IF name = IIT_DELHI
        THEN [ranking |-> 2, placement |-> 983,
              accreditation |-> <<NAAC_A_PLUS_PLUS, NBA>>]
        ELSE IF name = DELHI_UNIVERSITY
        THEN [ranking |-> 15, placement |-> 840,
              accreditation |-> <<NAAC_A_PLUS_PLUS>>]
        ELSE [ranking |-> 1, placement |-> 950,
              accreditation |-> <<NAAC_A_PLUS_PLUS, NBA>>]]

ugc_database ==
    [name \in {IIT_DELHI, DELHI_UNIVERSITY, IISC_BANGALORE} |->
        [accreditation |-> <<NAAC_A_PLUS_PLUS>>, status |-> "recognized"]]

aicte_database ==
    [name \in {IIT_DELHI, DELHI_UNIVERSITY, IISC_BANGALORE} |->
        IF name = IIT_DELHI
        THEN [accreditation |-> <<NBA>>,
              programs |-> <<[name |-> COMPUTER_SCIENCE, seats |-> 120],
                             [name |-> ELECTRICAL_ENGINEERING, seats |-> 100]>>]
        ELSE IF name = DELHI_UNIVERSITY
        THEN [accreditation |-> <<>>,
              programs |-> <<[name |-> COMPUTER_SCIENCE, seats |-> 200],
                             [name |-> COMMERCE, seats |-> 300]>>]
        ELSE [accreditation |-> <<NBA>>,
              programs |-> <<[name |-> RESEARCH, seats |-> 80]>>]]

\* dict.get(college_name)
_fetch_nirf_data(college_name) ==
    IF college_name \in DOMAIN nirf_database THEN nirf_database[college_name] ELSE None

_fetch_ugc_data(college_name) ==
    IF college_name \in DOMAIN ugc_database THEN ugc_database[college_name] ELSE None

_fetch_aicte_data(college_name) ==
    IF college_name \in DOMAIN aicte_database THEN aicte_database[college_name] ELSE None

\* (d or {}).get(key, [])
GetList(d, key) == IF Truthy(d) /\ key \in DOMAIN d THEN d[key] ELSE <<>>

_fetch_program_data(college_name) ==
    With(_fetch_aicte_data(college_name), LAMBDA aicte_data :
    With(_fetch_ugc_data(college_name), LAMBDA ugc_data :
        IF Truthy(aicte_data) \/ Truthy(ugc_data)
        THEN [programs |->
                  GetList(aicte_data, "programs") \o GetList(ugc_data, "programs"),
              accreditation |->
                  GetList(aicte_data, "accreditation") \o GetList(ugc_data, "accreditation")]
        ELSE None))

(***************************************************************************)
(* VerificationResult and the per-type checks.  t is datetime.now().       *)
(***************************************************************************)
\* notes: the text of the f-string and the values it interpolates, as strings
Notes(text, args) == [text |-> text, args |-> args]

VerificationResult(claim, verified, confidence, source, verification_date, notes) ==
    [claim |-> claim, verified |-> verified, confidence |-> confidence,
     source |-> source, verification_date |-> verification_date, notes |-> notes]

\* re.search(r"(\d+(?:\.\d+)?)%", claim): the position after group 1 of a match
\* that starts at i, 0 when none starts there
PercentMatchEnd(s, i) ==
    IF ~(i <= Len(s) /\ IsDigit(s[i])) THEN 0
    ELSE With(DigitRunEnd(s, i), LAMBDA q :
            IF q <= Len(s) /\ s[q] = "%" THEN q
            ELSE IF q + 1 <= Len(s) /\ s[q] = "." /\ IsDigit(s[q + 1])
            THEN With(DigitRunEnd(s, q + 1), LAMBDA q2 :
                    IF q2 <= Len(s) /\ s[q2] = "%" THEN q2 ELSE 0)
            ELSE 0)

\* the leftmost match: [matched, group1]
SearchPercent(s) ==
    With({i \in 1..Len(s) : PercentMatchEnd(s, i) # 0}, LAMBDA starts :
        IF starts = {} THEN [matched |-> FALSE]
        ELSE [matched |-> TRUE,
              group1 |-> SubSeq(s, Min(starts), PercentMatchEnd(s, Min(starts)) - 1)])

\* abs(claimed_percentage - official_percentage) <= 5.0, official in tenths
WithinFivePoints(claimed, official) ==
    Abs(10 * claimed.num - official * claimed.den) <= 50 * claimed.den

\* the except clause of a per-type check: r is what its try block produced
Except(r, claim, t, text) ==
    IF IsRaise(r)
    THEN VerificationResult(claim, FALSE, 0, "verification_error", t, Notes(text, <<>>))
    ELSE r

_verify_placement_try(claim, college_name, t) ==
    With(_fetch_nirf_data(college_name), LAMBDA nirf_data :
    With(SearchPercent(claim), LAMBDA placement_match :
        IF /\ Truthy(nirf_data)
           /\ "placement" \in DOMAIN nirf_data
           /\ placement_match.matched
           /\ WithinFivePoints(PyFloat(placement_match.group1), nirf_data.placement)
        THEN VerificationResult(claim, TRUE, 90, "NIRF", t,
                 Notes("Verified against NIRF data: {}%", <<PyStrFloat(nirf_data.placement)>>))
        ELSE VerificationResult(claim, FALSE, 30, "NIRF", t,
                 Notes("Placement data not found in NIRF records", <<>>))))

_verify_placement_claim(claim, college_name, t) ==
    Except(_verify_placement_try(claim, college_name, t), claim, t,
           "Error during verification: {}")

\* the three outcomes, by the number of claimed accreditations found
AccreditationOutcome(claim, t, accreditations, verified_accreditations, verified_count) ==
    IF verified_count = Len(accreditations)
    THEN VerificationResult(claim, TRUE, 95, "UGC/AICTE", t,
             Notes("All accreditations verified: {}",
                   <<PyJoin(COMMA_SPACE, verified_accreditations)>>))
    ELSE IF verified_count > 0
    THEN VerificationResult(claim, TRUE, 70, "UGC/AICTE", t,
             Notes("Partially verified: {}/{} accreditations found",
                   <<PyStrInt(verified_count), PyStrInt(Len(accreditations))>>))
    ELSE VerificationResult(claim, FALSE, 80, "UGC/AICTE", t,
             Notes("No matching accreditations found in official records", <<>>))

_verify_accreditation_try(claim, college_name, t) ==
    With(SelectSeq(<<NAAC, NBA, AICTE, UGC>>, LAMBDA acc : Contains(claim, acc)),
         LAMBDA accreditations :
    With(GetList(_fetch_ugc_data(college_name), "accreditation")
             \o GetList(_fetch_aicte_data(college_name), "accreditation"),
         LAMBDA verified_accreditations :
        AccreditationOutcome(claim, t, accreditations, verified_accreditations,
            Len(SelectSeq(accreditations, LAMBDA acc : InList(acc, verified_accreditations))))))

_verify_accreditation_claim(claim, college_name, t) ==
    Except(_verify_accreditation_try(claim, college_name, t), claim, t,
           "Error during accreditation verification: {}")

\* re.search(r"Offers (.+?) with (\d+) seats", claim): the ends j of group 1 for a
\* match that starts at i (" with " stands at j, digits follow, " seats" follows them)
OffersGroupEnds(s, i) ==
    IF ~LitAt(s, i, OFFERS_) THEN {}
    ELSE {j \in (i + Len(OFFERS_) + 1)..Len(s) :
            /\ LitAt(s, j, _WITH_)
            /\ j + Len(_WITH_) <= Len(s)
            /\ IsDigit(s[j + Len(_WITH_)])
            /\ LitAt(s, DigitRunEnd(s, j + Len(_WITH_)), _SEATS)
            /\ \A p \in (i + Len(OFFERS_))..(j - 1) : s[p] # "\n"}

\* the leftmost match with the shortest group 1: [matched, group1, group2]
SearchOffers(s) ==
    With({i \in 1..Len(s) : OffersGroupEnds(s, i) # {}}, LAMBDA starts :
        IF starts = {} THEN [matched |-> FALSE]
        ELSE With(Min(OffersGroupEnds(s, Min(starts))), LAMBDA j :
                [matched |-> TRUE,
                 group1 |-> SubSeq(s, Min(starts) + Len(OFFERS_), j - 1),
                 group2 |-> SubSeq(s, j + Len(_WITH_),
                                   DigitRunEnd(s, j + Len(_WITH_)) - 1)]))

\* the loop over the official programs, once the claim has matched:
\* the first program of that name with the seats within 10
ProgramLoop(claim, t, programs, program_name, claimed_seats, unverified) ==
    IF IsRaise(claimed_seats) THEN claimed_seats
    ELSE With({p \in 1..Len(programs) :
                /\ Contains(PyLower(programs[p].name), PyLower(program_name))
                /\ Abs(claimed_seats.value - programs[p].seats) <= 10},
              LAMBDA found :
            IF found = {} THEN unverified
            ELSE VerificationResult(claim, TRUE, 90, "AICTE/UGC", t,
                     Notes("Program verified: {} with {} seats",
                           <<program_name, PyStrInt(programs[Min(found)].seats)>>)))

_verify_program_try(claim, college_name, t) ==
    With(_fetch_program_data(college_name), LAMBDA program_data :
    With(SearchOffers(claim), LAMBDA program_match :
    With(VerificationResult(claim, FALSE, 60, "AICTE/UGC", t,
             Notes("Program not found in official records or seat count mismatch", <<>>)),
         LAMBDA unverified :
        IF ~(Truthy(program_data) /\ program_match.matched) THEN unverified
        ELSE ProgramLoop(claim, t, program_data.programs, program_match.group1,
                         PyInt(program_match.group2), unverified))))

\* the check without its except clause: NeverRaises must tell it from the code
_verify_program_claim_unguarded(claim, college_name, t) ==
    _verify_program_try(claim, college_name, t)

_verify_program_claim(claim, college_name, t) ==
    Except(_verify_program_try(claim, college_name, t), claim, t,
           "Error during program verification: {}")

_verify_nirf_data(claim, college_name, t) ==
    IF Truthy(_fetch_nirf_data(college_name))
    THEN VerificationResult(claim, TRUE, 80, "NIRF", t, Notes("Data found in NIRF records", <<>>))
    ELSE VerificationResult(claim, FALSE, 0, "NIRF", t,
             Notes("Data not found in NIRF records", <<>>))

_verify_ugc_data(claim, college_name, t) ==
    IF Truthy(_fetch_ugc_data(college_name))
    THEN VerificationResult(claim, TRUE, 70, "UGC", t, Notes("Data found in UGC records", <<>>))
    ELSE VerificationResult(claim, FALSE, 0, "UGC", t,
             Notes("Data not found in UGC records", <<>>))

_verify_aicte_data(claim, college_name, t) ==
    IF Truthy(_fetch_aicte_data(college_name))
    THEN VerificationResult(claim, TRUE, 70, "AICTE", t,
             Notes("Data found in AICTE records", <<>>))
    ELSE VerificationResult(claim, FALSE, 0, "AICTE", t,
             Notes("Data not found in AICTE records", <<>>))

\* max(results, key=lambda x: x.confidence): the first of the greatest
MaxByConfidence(results) ==
    results[Min({i \in 1..Len(results) :
                    \A k \in 1..Len(results) : results[k].confidence <= results[i].confidence})]

\* an aggregation that hands on the best attempt when none verified:
\* UnverifiedIsZeroConfidence must tell it from the code
_perform_verification_best_attempt(claim, college_name, claim_type, t) ==
    With(IF claim_type = PLACEMENT
         THEN <<_verify_placement_claim(claim, college_name, t)>>
         ELSE IF claim_type = ACCREDITATION
         THEN <<_verify_accreditation_claim(claim, college_name, t)>>
         ELSE IF claim_type = PROGRAM
         THEN <<_verify_program_claim(claim, college_name, t)>>
         ELSE <<_verify_nirf_data(claim, college_name, t),
                _verify_ugc_data(claim, college_name, t),
                _verify_aicte_data(claim, college_name, t)>>,
         LAMBDA verification_attempts :
        IF \E i \in 1..Len(verification_attempts) : IsRaise(verification_attempts[i])
        THEN verification_attempts[
                 Min({i \in 1..Len(verification_attempts) : IsRaise(verification_attempts[i])})]
        ELSE With(SelectSeq(verification_attempts, LAMBDA r : r.verified),
                  LAMBDA verified_results :
                IF verified_results # <<>>
                THEN MaxByConfidence(verified_results)
                ELSE MaxByConfidence(verification_attempts)))

_perform_verification(claim, college_name, claim_type, t) ==
    With(IF claim_type = PLACEMENT
         THEN <<_verify_placement_claim(claim, college_name, t)>>
         ELSE IF claim_type = ACCREDITATION
         THEN <<_verify_accreditation_claim(claim, college_name, t)>>
         ELSE IF claim_type = PROGRAM
         THEN <<_verify_program_claim(claim, college_name, t)>>
         ELSE <<_verify_nirf_data(claim, college_name, t),
                _verify_ugc_data(claim, college_name, t),
                _verify_aicte_data(claim, college_name, t)>>,
         LAMBDA verification_attempts :
        IF \E i \in 1..Len(verification_attempts) : IsRaise(verification_attempts[i])
        THEN \* an exception that escaped a check leaves the function
             verification_attempts[
                 Min({i \in 1..Len(verification_attempts) : IsRaise(verification_attempts[i])})]
        ELSE With(SelectSeq(verification_attempts, LAMBDA r : r.verified),
                  LAMBDA verified_results :
                IF verified_results # <<>>
                THEN MaxByConfidence(verified_results)
                ELSE VerificationResult(claim, FALSE, 0, "verification_failed", t,
                         Notes("Could not verify claim against government sources", <<>>))))

cache_duration == 24 * 60 * 60

\* a cache that never answers: CacheHitReturnsStored must tell it from the code
_is_cache_valid_never(cached_result, t) == FALSE

\* an entry still live at exactly cache_duration: ExpiryFromTimestamp must tell
\* it from the code
_is_cache_valid_inclusive(cached_result, t) ==
    t - cached_result.verification_date <= cache_duration

\* age = datetime.now() - cached_result.verification_date
_is_cache_valid(cached_result, t) ==
    LET age == t - cached_result.verification_date
    IN  age < cache_duration

(***************************************************************************)
(* verify_college_claim: the cache in front of _perform_verification.      *)
(***************************************************************************)
\* f"{college_name}_{claim}_{claim_type}"
CacheKey(claim, college_name, claim_type) ==
    college_name \o <<"_">> \o claim \o <<"_">> \o claim_type

\* what one call did: what it returned (or the exception that left it), the cache
\* afterwards, its arguments and key, whether the cache answered (hit) and whether
\* an expired entry stood under the key (stale)
CallOutcome(ret, cache, args, key, hit, stale) ==
    [ret |-> ret, cache |-> cache, args |-> args, key |-> key, hit |-> hit, stale |-> stale]

\* self.verification_cache[cache_key] = verification_result; return verification_result
StoreResult(cache, args, cache_key, verification_result) ==
    CallOutcome(verification_result,
                IF IsRaise(verification_result) THEN cache
                ELSE (cache_key :> verification_result) @@ cache,
                args, cache_key, FALSE, cache_key \in DOMAIN cache)

\* the call on the cache as it stands at time t
verify_college_claim(cache, claim, college_name, claim_type, t) ==
    With(CacheKey(claim, college_name, claim_type), LAMBDA cache_key :
        IF cache_key \in DOMAIN cache /\ _is_cache_valid(cache[cache_key], t)
        THEN CallOutcome(cache[cache_key], cache, <<claim, college_name, claim_type>>,
                         cache_key, TRUE, FALSE)
        ELSE StoreResult(cache, <<claim, college_name, claim_type>>, cache_key,
                         _perform_verification(claim, college_name, claim_type, t)))

\* the record of a call that the last operation keeps
CallRecord(out) ==
    [args |-> out.args, key |-> out.key, hit |-> out.hit, stale |-> out.stale, ret |-> out.ret]

\* who stored each entry, after the calls cs of one operation
StoredAfter(sb, cs) ==
    LET fresh == {i \in 1..Len(cs) : ~cs[i].hit /\ ~IsRaise(cs[i].ret)}
    IN  [k \in DOMAIN sb \cup {cs[i].key : i \in fresh} |->
            IF \E i \in fresh : cs[i].key = k
            THEN cs[CHOOSE i \in fresh :
                        cs[i].key = k /\ \A j \in fresh : cs[j].key = k => j <= i].args
            ELSE sb[k]]

(***************************************************************************)
(* verify_recommendations.                                                 *)
(***************************************************************************)
\* a majority test that counts one half as a majority: StatusFromCounts must
\* tell it from the code
VerificationStatus_ge(verified_count, total_count) ==
    IF total_count = 0 THEN "no_claims"
    ELSE IF verified_count = total_count THEN "verified"
    ELSE IF 2 * verified_count >= total_count THEN "partially_verified"
    ELSE "flagged"

\* a status that stays as generation left it when there was nothing to check:
\* StatusStateMachine must tell it from the code
VerificationStatus_pending(verified_count, total_count) ==
    IF total_count = 0 THEN "pending"
    ELSE IF verified_count = total_count THEN "verified"
    ELSE IF verified_count > total_count \div 2 THEN "partially_verified"
    ELSE "flagged"

\* the aggregate status of verified_count verified claims out of total_count
VerificationStatus(verified_count, total_count) ==
    IF total_count = 0 THEN "no_claims"
    ELSE IF verified_count = total_count THEN "verified"
    ELSE IF verified_count > total_count \div 2 THEN "partially_verified"
    ELSE "flagged"

\* f"Verification: {result.verified} (Confidence: {result.confidence:.2f})"
CitationLine(r) ==
    VERIFICATION_PREFIX \o PyStrBool(r.verified) \o CONFIDENCE_PREFIX
        \o PyFormat2f(r.confidence) \o <<")">>

\* f"Placement percentage: {latest_stats.placement_percentage}%"
PlacementClaim(college) ==
    PLACEMENT_PREFIX
        \o PyStrFloat(college.placement_stats[Len(college.placement_stats)].placement_percentage)
        \o <<"%">>

\* f"Accredited by: {', '.join(recommendation.college.accreditation)}"
AccreditationClaim(college) == ACCREDITED_BY \o PyJoin(COMMA_SPACE, college.accreditation)

\* f"Offers {program.program_name} with {program.seats_total} seats"
ProgramClaim(college) ==
    OFFERS_ \o college.programs[1].program_name \o _WITH_
        \o PyStrInt(college.programs[1].seats_total) \o _SEATS

\* the position of the loop body: the cache, this recommendation's
\* verification_results and calls so far, and whether an exception is in flight
AfterCall(st, out) ==
    [cache |-> out.cache,
     results |-> IF IsRaise(out.ret) THEN st.results ELSE Append(st.results, out.ret),
     calls |-> Append(st.calls, CallRecord(out)),
     raised |-> IsRaise(out.ret)]

\* if listed: verification_results.append(self.verify_college_claim(claim, name, claim_type))
VerifyStep(st, listed, claim, college_name, claim_type, t) ==
    IF ~listed \/ st.raised THEN st
    ELSE AfterCall(st, verify_college_claim(st.cache, claim, college_name, claim_type, t))

\* citations replaced instead of extended: CitationsAppended must tell it from
\* the code
Updated_overwrite(recommendation, st) ==
    [recommendation |->
        IF st.raised THEN recommendation
        ELSE [recommendation EXCEPT
                !.verification_status =
                    VerificationStatus(Len(SelectSeq(st.results, LAMBDA r : r.verified)),
                                       Len(st.results)),
                !.evidence_citations =
                    [i \in 1..Len(st.results) |-> CitationLine(st.results[i])]],
     cache |-> st.cache, results |-> st.results, calls |-> st.calls, raised |-> st.raised]

\* the status and the citations of a recommendation whose claims are checked
Updated(recommendation, st) ==
    [recommendation |->
        IF st.raised THEN recommendation
        ELSE [recommendation EXCEPT
                !.verification_status =
                    VerificationStatus(Len(SelectSeq(st.results, LAMBDA r : r.verified)),
                                       Len(st.results)),
                !.evidence_citations =
                    @ \o [i \in 1..Len(st.results) |-> CitationLine(st.results[i])]],
     cache |-> st.cache, results |-> st.results, calls |-> st.calls, raised |-> st.raised]

\* one iteration of the loop over the recommendations
VerifyOne(recommendation, cache, t) ==
    Updated(recommendation,
        VerifyStep(
            VerifyStep(
                VerifyStep([cache |-> cache, results |-> <<>>, calls |-> <<>>, raised |-> FALSE],
                    recommendation.college.placement_stats # <<>>,
                    PlacementClaim(recommendation.college),
                    recommendation.college.name, PLACEMENT, t),
                recommendation.college.accreditation # <<>>,
                AccreditationClaim(recommendation.college),
                recommendation.college.name, ACCREDITATION, t),
            recommendation.college.programs # <<>>,
            ProgramClaim(recommendation.college),
            recommendation.college.name, PROGRAM, t))

\* a loop that keeps back the recommendations it flags: VerificationFrame must
\* tell it from the code
Collect_unflagged(acc, one) ==
    [cache |-> one.cache,
     done |-> IF one.raised \/ one.recommendation.verification_status = "flagged"
              THEN acc.done ELSE Append(acc.done, one.recommendation),
     results |-> Append(acc.results, one.results),
     calls |-> acc.calls \o one.calls,
     raised |-> one.raised]

\* verified_recommendations.append(recommendation), unless the iteration raised
Collect(acc, one) ==
    [cache |-> one.cache,
     done |-> IF one.raised THEN acc.done ELSE Append(acc.done, one.recommendation),
     results |-> Append(acc.results, one.results),
     calls |-> acc.calls \o one.calls,
     raised |-> one.raised]

\* the loop from recommendation i on; acc: [cache, done, results, calls, raised]
RECURSIVE VerifyLoop(_, _, _, _)
VerifyLoop(recs, i, acc, t) ==
    IF i > Len(recs) \/ acc.raised THEN acc
    ELSE VerifyLoop(recs, i + 1, Collect(acc, VerifyOne(recs[i], acc.cache, t)), t)

verify_recommendations(recs, cache, t) ==
    VerifyLoop(recs, 1,
        [cache |-> cache, done |-> <<>>, results |-> <<>>, calls |-> <<>>, raised |-> FALSE], t)
(***************************************************************************)
(* Floating point, where the code depends on it: sum(weights.values()) is  *)
(* a chain of IEEE-754 binary64 additions, and the division by it raises   *)
(* exactly when that chain ends in 0.0.  A double is sign and magnitude,   *)
(* the magnitude an integer count of 2^-56 in two limbs: hi * 2^28 + lo.   *)
(* Every weight of the runs is 0 or at least 2^-4 in magnitude, so every   *)
(* weight and every partial sum is such a count.                           *)
(***************************************************************************)
Limb == 2 ^ 28

\* the double that the decimal literal h / 100 denotes
PyFloatOf(h) ==
        IF h = -100 THEN [neg |-> TRUE, hi |-> 268435456, lo |-> 0]
        ELSE IF h = -70 THEN [neg |-> TRUE, hi |-> 187904819, lo |-> 53687088]
        ELSE IF h = -50 THEN [neg |-> TRUE, hi |-> 134217728, lo |-> 0]
        ELSE IF h = -30 THEN [neg |-> TRUE, hi |-> 80530636, lo |-> 214748364]
        ELSE IF h = -20 THEN [neg |-> TRUE, hi |-> 53687091, lo |-> 53687092]
        ELSE IF h = 0 THEN [neg |-> FALSE, hi |-> 0, lo |-> 0]
        ELSE IF h = 20 THEN [neg |-> FALSE, hi |-> 53687091, lo |-> 53687092]
        ELSE IF h = 30 THEN [neg |-> FALSE, hi |-> 80530636, lo |-> 214748364]
        ELSE IF h = 50 THEN [neg |-> FALSE, hi |-> 134217728, lo |-> 0]
        ELSE IF h = 70 THEN [neg |-> FALSE, hi |-> 187904819, lo |-> 53687088]
        ELSE [neg |-> FALSE, hi |-> 268435456, lo |-> 0]

FloatZero == [neg |-> FALSE, hi |-> 0, lo |-> 0]

FloatIsZero(x) == x.hi = 0 /\ x.lo = 0

MagLess(a, b) == a.hi < b.hi \/ (a.hi = b.hi /\ a.lo < b.lo)

MagAdd(a, b) ==
    [hi |-> a.hi + b.hi + ((a.lo + b.lo) \div Limb), lo |-> (a.lo + b.lo) % Limb]

\* a - b for magnitudes with b <= a
MagSub(a, b) ==
    IF a.lo >= b.lo THEN [hi |-> a.hi - b.hi, lo |-> a.lo - b.lo]
    ELSE [hi |-> a.hi - b.hi - 1, lo |-> a.lo + Limb - b.lo]

\* the spacing of the doubles around the magnitude m, in units of 2^-56
Ulp(m) ==
    IF m.hi < 2 ^ 25 THEN 1
    ELSE IF m.hi < 2 ^ 26 THEN 2
    ELSE IF m.hi < 2 ^ 27 THEN 4
    ELSE IF m.hi < 2 ^ 28 THEN 8
    ELSE IF m.hi < 2 ^ 29 THEN 16
    ELSE 32

\* round to nearest, ties to even: the magnitude m as a 53-bit significand
RoundToDouble(m) ==
    With(Ulp(m), LAMBDA q :
    With(m.lo % q, LAMBDA r :
        IF 2 * r > q \/ (2 * r = q /\ ((m.lo - r) \div q) % 2 = 1)
        THEN MagAdd([hi |-> m.hi, lo |-> m.lo - r], [hi |-> 0, lo |-> q])
        ELSE [hi |-> m.hi, lo |-> m.lo - r]))

Signed(neg, m) == [neg |-> neg /\ ~(m.hi = 0 /\ m.lo = 0), hi |-> m.hi, lo |-> m.lo]

\* a + b of two doubles
FloatAdd(a, b) ==
    IF a.neg = b.neg THEN Signed(a.neg, RoundToDouble(MagAdd(a, b)))
    ELSE IF MagLess(a, b) THEN Signed(b.neg, RoundToDouble(MagSub(b, a)))
    ELSE Signed(a.neg, RoundToDouble(MagSub(a, b)))

\* sum(values): 0 + values[0] + values[1] + ..., left to right
RECURSIVE PySumFrom(_, _, _)
PySumFrom(acc, values, i) ==
    IF i > Len(values) THEN acc
    ELSE PySumFrom(FloatAdd(acc, PyFloatOf(values[i])), values, i + 1)

PySum(values) == PySumFrom(FloatZero, values, 1)


(***************************************************************************)
(* The records handed to the service (src/src/models/college.py), with the *)
(* fields the service reads or writes.                                     *)
(***************************************************************************)
CollegeProgram(program_name, seats_total) ==
    [program_name |-> program_name, seats_total |-> seats_total]

PlacementStats(placement_percentage) == [placement_percentage |-> placement_percentage]

College(name, placement_stats, accreditation, programs) ==
    [name |-> name, placement_stats |-> placement_stats,
     accreditation |-> accreditation, programs |-> programs]

\* a composite score: the fraction num / den.  When tiny, the weights summed to a
\* rounding residue and den counts that residue, so the fraction is in units of
\* 2^56 / 100
Composite(num, den, tiny) == [num |-> num, den |-> den, tiny |-> tiny]

\* the score generate_recommendations gives every recommendation: sub-scores in
\* tenths (8.0, 7.5, 8.5, 7.0), composite 7.8, confidence 0.8
RecommendationScore ==
    [official_quality |-> 80, mentor_trust |-> 75, relevance |-> 85, proximity |-> 70,
     composite_score |-> Composite(78, 10, FALSE), confidence |-> 80]

\* as generate_recommendations builds it: evidence_citations and source_links
\* both start as the college's source links, the status as 'pending'
CollegeRecommendation(rank, college, links) ==
    [rank |-> rank, college |-> college, score |-> RecommendationScore,
     rationale |-> "Recommended because ...", evidence_citations |-> links,
     source_links |-> links, verification_status |-> "pending"]

(***************************************************************************)
(* Scoring: CollegeRecommendationService._apply_preferences                *)
(* (src/src/services/college_recommendation_service.py).  A dict is the    *)
(* sequence of its <<key, value>> items in insertion order; a weight is    *)
(* the decimal it was written as, in hundredths (0.3 = 30).                *)
(***************************************************************************)
DictHas(d, key) == \E i \in 1..Len(d) : d[i][1] = key

DictGet(d, key) == d[CHOOSE i \in 1..Len(d) : d[i][1] = key][2]

\* {**a, **b}: the keys of a in their order, with the values of b where b has
\* the key, then the other keys of b in their order
DictMerge(a, b) ==
    [i \in 1..Len(a) |->
        IF DictHas(b, a[i][1]) THEN <<a[i][1], DictGet(b, a[i][1])>> ELSE a[i]]
    \o SelectSeq(b, LAMBDA item : ~DictHas(a, item[1]))

\* list(d.values())
DictValues(d) == [i \in 1..Len(d) |-> d[i][2]]

default_weights ==
    << <<"official_quality", 30>>, <<"mentor_trust", 20>>,
       <<"relevance", 30>>, <<"proximity", 20>> >>

RECURSIVE SumSeq(_)
SumSeq(s) == IF s = <<>> THEN 0 ELSE Head(s) + SumSeq(Tail(s))

\* the sign of the double x: -1, 0 or 1
FloatSign(x) == IF FloatIsZero(x) THEN 0 ELSE IF x.neg THEN 0 - 1 ELSE 1

\* the four products of new_composite, over the weights before normalisation:
\* sub-scores in tenths times weights in hundredths
WeightedSum(score, weights) ==
    score.official_quality * DictGet(weights, "official_quality")
        + score.mentor_trust * DictGet(weights, "mentor_trust")
        + score.relevance * DictGet(weights, "relevance")
        + score.proximity * DictGet(weights, "proximity")

\* new_composite under normalized_weights = v / total_weight.  total_weight is
\* the double total; where the decimal weights sum to 0 and total is the
\* rounding residue left by the additions, the composite is tiny
NewComposite(score, weights, total) ==
    IF SumSeq(DictValues(weights)) # 0
    THEN Composite(WeightedSum(score, weights), 10 * SumSeq(DictValues(weights)), FALSE)
    ELSE Composite(WeightedSum(score, weights), 10 * FloatSign(total) * total.lo, TRUE)

\* a < b for composites of one unit
CompositeLess(a, b) ==
    IF (a.den > 0) = (b.den > 0)
    THEN a.num * b.den < b.num * a.den
    ELSE a.num * b.den > b.num * a.den

\* a sort that puts x in front of the elements with an equal key:
\* SortedDescendingStable must tell it from the code
SortInsert_before_equal(sorted, x) ==
    With({j \in 1..Len(sorted) :
             ~CompositeLess(x.score.composite_score, sorted[j].score.composite_score)},
         LAMBDA not_larger :
            IF not_larger = {} THEN Append(sorted, x)
            ELSE SubSeq(sorted, 1, Min(not_larger) - 1) \o <<x>>
                     \o SubSeq(sorted, Min(not_larger), Len(sorted)))

\* list.sort(key=lambda x: x.score.composite_score, reverse=True): x goes in
\* front of the first element with a smaller key, behind every equal one
SortInsert(sorted, x) ==
    With({j \in 1..Len(sorted) :
             CompositeLess(sorted[j].score.composite_score, x.score.composite_score)},
         LAMBDA smaller :
            IF smaller = {} THEN Append(sorted, x)
            ELSE SubSeq(sorted, 1, Min(smaller) - 1) \o <<x>>
                     \o SubSeq(sorted, Min(smaller), Len(sorted)))

RECURSIVE SortByComposite(_, _, _)
SortByComposite(sorted, recs, i) ==
    IF i > Len(recs) THEN sorted
    ELSE SortByComposite(SortInsert(sorted, recs[i]), recs, i + 1)

\* for i, recommendation in enumerate(recommendations, 1): recommendation.rank = i
Rerank(recs) == [i \in 1..Len(recs) |-> [recs[i] EXCEPT !.rank = i]]

\* a re-scoring that adds the rank a recommendation came with to its composite:
\* RescoringIsIdempotent must tell it from the code
Rescore_rank_bonus(recs, weights, total) ==
    [i \in 1..Len(recs) |->
        [recs[i] EXCEPT !.score.composite_score =
            Composite(NewComposite(recs[i].score, weights, total).num
                          + recs[i].rank * NewComposite(recs[i].score, weights, total).den,
                      NewComposite(recs[i].score, weights, total).den,
                      NewComposite(recs[i].score, weights, total).tiny)]]

\* the loop that sets score.composite_score = new_composite
Rescore(recs, weights, total) ==
    [i \in 1..Len(recs) |->
        [recs[i] EXCEPT !.score.composite_score = NewComposite(recs[i].score, weights, total)]]

\* v / total_weight raises when total_weight is zero, before any score is touched
Normalized(recs, weights, total_weight) ==
    IF FloatIsZero(total_weight) THEN Raise("ZeroDivisionError")
    ELSE Return(Rerank(SortByComposite(<<>>, Rescore(recs, weights, total_weight), 1)))

_apply_preferences(recs, preferences) ==
    With(DictMerge(default_weights, preferences), LAMBDA weights :
        Normalized(recs, weights, PySum(DictValues(weights))))

(***************************************************************************)
(* Generation: CollegeRecommendationLLM.generate_recommendations and       *)
(* MockLLM (src/src/services/llm_service.py).  The model's text is kept as *)
(* what json.loads makes of it: kind "list" (a JSON array of objects),     *)
(* kind "dict" (one JSON object) or kind "text" (no JSON: its lines).  A   *)
(* JSON object is a record holding the keys the text gave.                 *)
(***************************************************************************)
\* d.get(key, default) on a JSON object
Get(d, key, default) == IF key \in DOMAIN d THEN d[key] ELSE default

\* the values of the CollegeType enumeration (models/college.py)
CollegeType == {"government", "private", "deemed", "autonomous"}

\* the fields College declares without a default
CollegeRequired ==
    {"college_id", "name", "college_type", "location", "district", "state",
     "established_year", "programs", "placement_stats", "mentor_ratings"}

\* College(**given): pydantic refuses a call that leaves a required field out
NewCollege(given) ==
    IF CollegeRequired \subseteq DOMAIN given
    THEN College(given.name, given.placement_stats,
                 Get(given, "accreditation", <<>>), given.programs)
    ELSE Raise("ValidationError")

\* the programs and placement_stats loops: each JSON object mapped with defaults
MappedPrograms(rec_data) ==
    With(Get(rec_data, "programs", <<>>), LAMBDA ps :
        [i \in 1..Len(ps) |->
            CollegeProgram(Get(ps[i], "name", UNKNOWN_PROGRAM), Get(ps[i], "seats_total", 100))])

MappedPlacementStats(rec_data) ==
    With(Get(rec_data, "placement_stats", <<>>), LAMBDA ss :
        [i \in 1..Len(ss) |-> PlacementStats(Get(ss[i], "placement_percentage", 900))])

\* the body of the per-item try: the recommendation, or the exception raised
\* on the way (CollegeType(value) of a value outside the enumeration)
FromRecData(rec_data) ==
    IF Get(rec_data, "college_type", "government") \notin CollegeType
    THEN Raise("ValueError")
    ELSE CollegeRecommendation(
             Get(rec_data, "rank", 1),
             NewCollege([college_id |-> "unknown",
                         name |-> Get(rec_data, "college_name", UNKNOWN_COLLEGE),
                         college_type |-> Get(rec_data, "college_type", "government"),
                         location |-> "Unknown", district |-> "Unknown", state |-> "Unknown",
                         established_year |-> 2000,
                         accreditation |-> Get(rec_data, "accreditation", <<>>),
                         programs |-> MappedPrograms(rec_data),
                         placement_stats |-> MappedPlacementStats(rec_data),
                         mentor_ratings |-> <<>>]),
             Get(rec_data, "source_links", <<>>))

\* for rec_data in response_json: ... except Exception: continue
RECURSIVE FromJsonList(_, _, _)
FromJsonList(response_json, i, made_so_far) ==
    IF i > Len(response_json) THEN made_so_far
    ELSE FromJsonList(response_json, i + 1,
             With(FromRecData(response_json[i]), LAMBDA made :
                 IF IsRaise(made) THEN made_so_far ELSE Append(made_so_far, made)))

\* re.findall(r"Rank:\s*(\d+)", line): the digits after the first "Rank:" of
\* a line that holds one, with blanks skipped
SkipBlanks(s, p) ==
    CHOOSE q \in p..(Len(s) + 1) :
        /\ q = Len(s) + 1 \/ s[q] # " "
        /\ \A t \in p..(q - 1) : s[t] = " "

AfterLiteral(s, lit) ==
    IF Contains(s, lit)
    THEN SkipBlanks(s, Len(lit) + Min({p \in 1..Len(s) : LitAt(s, p, lit)}))
    ELSE Len(s) + 1

RankMatch(line) ==
    With(AfterLiteral(line, RANK_COLON), LAMBDA p : SubSeq(line, p, DigitRunEnd(line, p) - 1))

\* re.findall(r"College Name:\s*([^\n]+)", line): the rest of the line
CollegeMatch(line) == SubSeq(line, AfterLiteral(line, COLLEGE_NAME_COLON), Len(line))

\* findall over the whole text: the non-empty matches of its lines, in order
FindAll(lines, Match(_)) ==
    SelectSeq([i \in 1..Len(lines) |-> Match(lines[i])], LAMBDA found : found # <<>>)

\* the score of a manually extracted recommendation
ManualScore ==
    [official_quality |-> 70, mentor_trust |-> 70, relevance |-> 70, proximity |-> 70,
     composite_score |-> Composite(70, 10, FALSE), confidence |-> 70]

\* CollegeRecommendation(rank=int(rank), college=College(college_id=..., name=college), ...)
ManualRecommendation(i, rank, college) ==
    With(NewCollege([college_id |-> COLLEGE_ID_PREFIX \o PyStrNat(i), name |-> college]),
         LAMBDA made :
            IF IsRaise(made) THEN made
            ELSE [rank |-> PyInt(rank).value, college |-> made, score |-> ManualScore,
                  rationale |-> "Recommended based on student profile match",
                  evidence_citations |-> <<SOURCE_PENDING>>,
                  source_links |-> <<EXAMPLE_LINK>>, verification_status |-> "pending"])

\* for i, (rank, college) in enumerate(zip(ranks, colleges)): nothing catches
\* an exception of the body
RECURSIVE ManualLoop(_, _, _, _)
ManualLoop(ranks, colleges, i, made_so_far) ==
    IF i > Min({Len(ranks), Len(colleges)}) THEN Return(made_so_far)
    ELSE With(ManualRecommendation(i - 1, ranks[i], colleges[i]), LAMBDA made :
            IF IsRaise(made) THEN made
            ELSE ManualLoop(ranks, colleges, i + 1, Append(made_so_far, made)))

_extract_recommendations_manual(lines) ==
    ManualLoop(FindAll(lines, RankMatch), FindAll(lines, CollegeMatch), 1, <<>>)

\* the parse of response.content and what follows it; json.loads raises on
\* text that is no JSON and the handler falls back to the manual extraction
generate_recommendations(response) ==
    CASE response.kind = "list" -> Return(FromJsonList(response.json, 1, <<>>))
      [] response.kind = "dict" -> Return(FromJsonList(<<response.json>>, 1, <<>>))
      [] response.kind = "text" -> _extract_recommendations_manual(response.lines)

JsonProgram(name, seats_total) == [name |-> name, seats_total |-> seats_total]

JsonCollege(rank, college_name, accreditation, programs, placement_percentage, source_links) ==
    [rank |-> rank, college_name |-> college_name, college_type |-> "government",
     accreditation |-> accreditation, programs |-> programs,
     placement_stats |-> <<[placement_percentage |-> placement_percentage]>>,
     source_links |-> source_links]

\* MockLLM.invoke: the same three colleges whatever the prompt holds
MockLLM ==
    [kind |-> "list",
     json |-> <<JsonCollege(1, NIT_SRINAGAR, <<NAAC_A, NBA, AICTE>>,
                            <<JsonProgram(BTECH_CSE, 60)>>, 900,
                            <<NITSRI_LINK, NIRF_HTTPS_LINK>>),
                JsonCollege(2, UNIVERSITY_OF_JAMMU, <<NAAC_A, UGC>>,
                            <<JsonProgram(BTECH_CSE, 60)>>, 750,
                            <<JAMMU_LINK, UGC_HTTPS_LINK>>),
                JsonCollege(3, UNIVERSITY_OF_KASHMIR, <<NAAC_A, UGC>>,
                            <<JsonProgram(BTECH_IT, 40)>>, 667,
                            <<KASHMIR_LINK, UGC_HTTPS_LINK>>)>>]

(***************************************************************************)
(* Retrieval and the request: CollegeRAGPipeline.search_colleges           *)
(* (src/src/services/rag_pipeline.py) and                                  *)
(* CollegeRecommendationService.get_recommendations.  The vector store is  *)
(* None or the documents it holds, most similar to the query first.        *)
(***************************************************************************)
\* a document of create_college_documents: the fee range of the college's
\* programs is in its metadata
Document(college_name, min_fees, max_fees) ==
    [page_content |-> college_name,
     metadata |-> [college_name |-> college_name, min_fees |-> min_fees, max_fees |-> max_fees]]

\* a search that finds nothing in a store that is not there:
\* MissingStoreIsAnError must tell it from the code
search_colleges_unchecked(store, k) ==
    IF store = None THEN Return(<<>>)
    ELSE Return(SubSeq(store, 1, Min({k, Len(store)})))

\* if not self.vectorstore: raise ValueError; else the k most similar documents
search_colleges(store, k) ==
    IF store = None THEN Raise("ValueError")
    ELSE Return(SubSeq(store, 1, Min({k, Len(store)})))

\* the overlap test with strict comparisons: BudgetFilterKeepsOverlapping must
\* tell it from the code
WithinBudget_strict(doc, min_budget, max_budget) ==
    /\ Get(doc.metadata, "min_fees", 0) < max_budget
    /\ Get(doc.metadata, "max_fees", 0) > min_budget

\* the test of the budget loop on one document
WithinBudget(doc, min_budget, max_budget) ==
    /\ Get(doc.metadata, "min_fees", 0) <= max_budget
    /\ Get(doc.metadata, "max_fees", 0) >= min_budget

\* budget_filtered_docs[:5]
BudgetFiltered(retrieved_docs, budget_range) ==
    With(SelectSeq(retrieved_docs, LAMBDA doc : WithinBudget(doc, budget_range[1], budget_range[2])),
         LAMBDA budget_filtered_docs :
            SubSeq(budget_filtered_docs, 1, Min({5, Len(budget_filtered_docs)})))

\* what a request has done so far: the value or exception it ends with (None
\* while it runs), the stages it ran, and the locals of get_recommendations
Started(cache) ==
    [ret |-> None, stages |-> <<>>, retrieved_docs |-> <<>>, candidates |-> <<>>,
     response |-> None, generated |-> <<>>, ranked |-> <<>>, cache |-> cache,
     calls |-> <<>>, verification_results |-> <<>>]

Running(run) == run.ret = None

\* retrieved_docs = self.rag_pipeline.search_colleges(query, k=5, filters), then
\* the budget post-filter
Retrieved(run, request, found) ==
    IF IsRaise(found) THEN [run EXCEPT !.ret = found, !.stages = Append(@, "retrieval")]
    ELSE [run EXCEPT
            !.stages = Append(@, "retrieval"),
            !.retrieved_docs = found.value,
            !.candidates =
                IF request.student_profile.budget_range # <<>>
                THEN BudgetFiltered(found.value, request.student_profile.budget_range)
                ELSE found.value]

\* recommendations = self.llm_service.generate_recommendations(...), where
\* self.llm.invoke answers with response
AfterGeneration(run, made) ==
    IF IsRaise(made) THEN [run EXCEPT !.ret = made, !.stages = Append(@, "generation")]
    ELSE [run EXCEPT !.stages = Append(@, "generation"),
                     !.generated = made.value, !.ranked = made.value]

Generated(run, response) ==
    IF ~Running(run) THEN run
    ELSE AfterGeneration([run EXCEPT !.response = response],
                         generate_recommendations(response))

\* if request.preferences: recommendations = self._apply_preferences(...)
AfterScoring(run, scored) ==
    IF IsRaise(scored) THEN [run EXCEPT !.ret = scored, !.stages = Append(@, "scoring")]
    ELSE [run EXCEPT !.stages = Append(@, "scoring"), !.ranked = scored.value]

Scored(run, request) ==
    IF ~Running(run) \/ request.preferences = <<>> THEN run
    ELSE AfterScoring(run, _apply_preferences(run.ranked, request.preferences))

\* if request.include_verification: recommendations = verify_recommendations(...)
AfterVerification(run, out) ==
    [run EXCEPT !.stages = Append(@, "verification"),
                !.ret = IF out.raised THEN Raise("Exception") ELSE @,
                !.ranked = IF out.raised THEN @ ELSE out.done,
                !.cache = out.cache, !.calls = out.calls,
                !.verification_results = out.results]

\* a verification that does not ask whether the request wants it:
\* VerificationIffRequested must tell it from the code
Verified_always(run, request, t) ==
    IF ~Running(run) THEN run
    ELSE AfterVerification(run, verify_recommendations(run.ranked, run.cache, t))

\* a verification of the recommendations the request will return only:
\* StagesInOrder must tell it from the code
Verified_after_truncation(run, request, t) ==
    IF ~Running(run) \/ ~request.include_verification THEN run
    ELSE AfterVerification(run,
             verify_recommendations(
                 SubSeq(run.ranked, 1, Min({request.max_recommendations, Len(run.ranked)})),
                 run.cache, t))

Verified(run, request, t) ==
    IF ~Running(run) \/ ~request.include_verification THEN run
    ELSE AfterVerification(run, verify_recommendations(run.ranked, run.cache, t))

\* a return that keeps the last max_recommendations instead of the first:
\* ReturnsRankedPrefix must tell it from the code
Truncated_suffix(run, request) ==
    IF ~Running(run) THEN run
    ELSE [run EXCEPT !.ret =
            Return(SubSeq(run.ranked,
                          Len(run.ranked) + 1
                              - Min({request.max_recommendations, Len(run.ranked)}),
                          Len(run.ranked)))]

\* return recommendations[:request.max_recommendations]
Truncated(run, request) ==
    IF ~Running(run) THEN run
    ELSE [run EXCEPT !.ret =
            Return(SubSeq(run.ranked, 1, Min({request.max_recommendations, Len(run.ranked)})))]

\* response: what self.llm.invoke returns for the prompt of this request
get_recommendations(request, store, response, cache, t) ==
    Truncated(
        Verified(
            Scored(
                Generated(Retrieved(Started(cache), request, search_colleges(store, 5)),
                          response),
                request),
            request, t),
        request)

(***************************************************************************)
(* The requests of a run.  Each pool is one family of calls on one service *)
(* instance; a run draws its calls from one pool, in any order, any number *)
(* of times, with the clock advancing in between.                          *)
(***************************************************************************)
NIRF_LINK ==
    <<"n","i","r","f",".","a","c",".","i","n">>

UGC_LINK ==
    <<"u","g","c",".","a","c",".","i","n">>

\* claim texts
Pct(digits) == PLACEMENT_PREFIX \o digits \o <<"%">>

Offers(program_name, seats) == OFFERS_ \o program_name \o _WITH_ \o seats \o _SEATS

\* more digits than int() converts
LongDigits == [i \in 1..(int_max_str_digits + 1) |-> "9"]

\* two requests whose cache keys coincide: "x_" moves from the claim to the name
WithX(claim) == <<"x", "_">> \o claim

NamedX(college_name) == college_name \o <<"_", "x">>

ClaimPools ==
    { \* placement against the reference 95.0: inside, on and outside the tolerance
      {<<Pct(<<"9","8",".","3">>), IISC_BANGALORE, PLACEMENT>>,
       <<Pct(<<"1","0","0",".","0">>), IISC_BANGALORE, PLACEMENT>>,
       <<Pct(<<"1","0","0",".","1">>), IISC_BANGALORE, PLACEMENT>>,
       <<Pct(<<"5","0">>), IISC_BANGALORE, PLACEMENT>>},
      {<<Pct(<<"9","0">>), IISC_BANGALORE, PLACEMENT>>,
       <<Pct(<<"8","9",".","9">>), IISC_BANGALORE, PLACEMENT>>,
       <<PLACEMENT_PREFIX, IISC_BANGALORE, PLACEMENT>>,
       <<Pct(<<"9","5">>), TEST_COLLEGE, PLACEMENT>>},
      {<<WithX(Pct(<<"9","5">>)), IISC_BANGALORE, PLACEMENT>>,
       <<Pct(<<"9","5">>), NamedX(IISC_BANGALORE), PLACEMENT>>},
      \* accreditation: all, some, none and no token of the vocabulary
      {<<ACCREDITED_BY \o NBA, IIT_DELHI, ACCREDITATION>>,
       <<ACCREDITED_BY \o NAAC_A_PLUS_PLUS \o COMMA_SPACE \o NBA, IIT_DELHI, ACCREDITATION>>,
       <<ACCREDITED_BY \o NAAC_A_PLUS_PLUS, IIT_DELHI, ACCREDITATION>>,
       <<ACCREDITED_BY, IIT_DELHI, ACCREDITATION>>},
      {<<ACCREDITED_BY \o NBA, DELHI_UNIVERSITY, ACCREDITATION>>,
       <<ACCREDITED_BY \o UGC \o COMMA_SPACE \o AICTE, TEST_COLLEGE, ACCREDITATION>>,
       <<WithX(ACCREDITED_BY \o NBA), IIT_DELHI, ACCREDITATION>>,
       <<ACCREDITED_BY \o NBA, NamedX(IIT_DELHI), ACCREDITATION>>,
       <<ACCREDITED_BY \o <<"I","S","O">>, TEST_COLLEGE, ACCREDITATION>>},
      \* program: seats inside, on and outside the tolerance, a partial name
      {<<Offers(COMPUTER_SCIENCE, <<"1","2","0">>), IIT_DELHI, PROGRAM>>,
       <<Offers(COMPUTER_SCIENCE, <<"1","3","0">>), IIT_DELHI, PROGRAM>>,
       <<Offers(COMPUTER_SCIENCE, <<"1","3","1">>), IIT_DELHI, PROGRAM>>,
       <<Offers(<<"c","o","m","p","u","t","e","r">>, <<"1","1","0">>), IIT_DELHI, PROGRAM>>},
      {<<Offers(COMMERCE, <<"3","0","0">>), IIT_DELHI, PROGRAM>>,
       <<Offers(COMPUTER_SCIENCE, <<"1","2","0">>), TEST_COLLEGE, PROGRAM>>,
       <<COMPUTER_SCIENCE \o _WITH_ \o <<"1","2","0">> \o _SEATS, IIT_DELHI, PROGRAM>>,
       <<Offers(ELECTRICAL_ENGINEERING, <<"9","5">>), IIT_DELHI, PROGRAM>>},
      \* a seat count int() refuses: the ValueError is caught inside the check
      {<<Offers(COMPUTER_SCIENCE, LongDigits), IIT_DELHI, PROGRAM>>},
      {<<WithX(Offers(RESEARCH, <<"8","0">>)), IISC_BANGALORE, PROGRAM>>,
       <<Offers(RESEARCH, <<"8","0">>), NamedX(IISC_BANGALORE), PROGRAM>>},
      \* general and unrecognized types
      {<<RESEARCH, IIT_DELHI, GENERAL>>,
       <<RESEARCH, IIT_DELHI, <<"r","a","n","k","i","n","g">>>>,
       <<RESEARCH, TEST_COLLEGE, GENERAL>>},
      {<<WithX(RESEARCH), DELHI_UNIVERSITY, GENERAL>>,
       <<RESEARCH, NamedX(DELHI_UNIVERSITY), GENERAL>>} }

\* colleges whose claims verify 3/3, 2/3, 1/3, 0/3, 0/0, 1/2, 2/2, 0/1 and 1/1
CollegeAll ==
    College(IISC_BANGALORE, <<PlacementStats(500), PlacementStats(950)>>, <<NBA>>,
            <<CollegeProgram(RESEARCH, 80)>>)

CollegeTwoOfThree ==
    College(IISC_BANGALORE, <<PlacementStats(950)>>, <<NAAC_A_PLUS_PLUS>>,
            <<CollegeProgram(RESEARCH, 80)>>)

CollegeOneOfThree ==
    College(IISC_BANGALORE, <<PlacementStats(500)>>, <<NAAC_A_PLUS_PLUS>>,
            <<CollegeProgram(RESEARCH, 80), CollegeProgram(COMMERCE, 300)>>)

CollegeNoneOfThree ==
    College(TEST_COLLEGE, <<PlacementStats(950)>>, <<NAAC_A_PLUS_PLUS>>,
            <<CollegeProgram(COMPUTER_SCIENCE, 120)>>)

CollegeNoClaims == College(DELHI_UNIVERSITY, <<>>, <<>>, <<>>)

CollegeOneOfTwo ==
    College(IIT_DELHI, <<PlacementStats(983)>>, <<NAAC_A_PLUS_PLUS>>, <<>>)

CollegeTwoOfTwo ==
    College(IIT_DELHI, <<>>, <<NAAC_A_PLUS_PLUS, NBA>>,
            <<CollegeProgram(COMPUTER_SCIENCE, 120), CollegeProgram(ELECTRICAL_ENGINEERING, 100)>>)

CollegeNoneOfOne == College(DELHI_UNIVERSITY, <<>>, <<>>, <<CollegeProgram(COMMERCE, 200)>>)

CollegeOneOfOne == College(DELHI_UNIVERSITY, <<>>, <<>>, <<CollegeProgram(COMMERCE, 310)>>)

\* a program name that reads as a seat count int() refuses
CollegeLongSeats ==
    College(DELHI_UNIVERSITY, <<>>, <<>>,
            <<CollegeProgram(COMMERCE \o _WITH_ \o LongDigits \o _SEATS, 300)>>)

RecommendationPools ==
    { {<<CollegeRecommendation(1, CollegeAll, <<NIRF_LINK>>),
         CollegeRecommendation(2, CollegeTwoOfThree, <<NIRF_LINK, UGC_LINK>>)>>},
      {<<CollegeRecommendation(1, CollegeOneOfThree, <<>>),
         CollegeRecommendation(2, CollegeNoClaims, <<UGC_LINK>>)>>,
       <<CollegeRecommendation(1, CollegeNoneOfThree, <<NIRF_LINK>>)>>},
      {<<CollegeRecommendation(1, CollegeOneOfTwo, <<NIRF_LINK>>),
         CollegeRecommendation(2, CollegeTwoOfTwo, <<>>)>>},
      {<<CollegeRecommendation(1, CollegeNoneOfOne, <<UGC_LINK>>),
         CollegeRecommendation(2, CollegeOneOfOne, <<NIRF_LINK>>),
         CollegeRecommendation(3, CollegeNoClaims, <<>>)>>},
      {<<CollegeRecommendation(1, CollegeLongSeats, <<>>),
         CollegeRecommendation(2, CollegeOneOfOne, <<NIRF_LINK>>)>>} }

(***************************************************************************)
(* The requests of a run through the whole pipeline: the documents of the  *)
(* vector store, the requests made of get_recommendations, and what the    *)
(* language model answers.                                                 *)
(***************************************************************************)
\* the store in the similarity order of the query: fee ranges on both sides
\* of the budgets below, one college without programs, six documents for k = 5
StoreOfSix ==
    <<Document(NIT_SRINAGAR, 150000, 150000),
      Document(UNIVERSITY_OF_JAMMU, 50000, 50000),
      Document(UNIVERSITY_OF_KASHMIR, 45000, 45000),
      Document(IIT_DELHI, 200000, 250000),
      Document(DELHI_UNIVERSITY, 0, 0),
      Document(IISC_BANGALORE, 30000, 60000)>>

StoreOfTwo ==
    <<Document(UNIVERSITY_OF_KASHMIR, 45000, 45000),
      Document(NIT_SRINAGAR, 150000, 150000)>>

\* RecommendationRequest(...): max_recommendations is declared ge=1, le=10
RecommendationRequest(budget_range, preferences, max_recommendations, include_verification) ==
    IF max_recommendations \notin 1..10 THEN Raise("ValidationError")
    ELSE [student_profile |-> [budget_range |-> budget_range],
          preferences |-> preferences,
          max_recommendations |-> max_recommendations,
          include_verification |-> include_verification]

\* the arguments of the requests of demo mode: <<budget_range, preferences,
\* max_recommendations, include_verification>>
DemoRequests ==
    { <<b, <<>>, n, FALSE>> :
        b \in {<<50000, 200000>>, <<100000, 500000>>, <<1, 10>>}, n \in {1, 2, 10} }
    \cup { <<(<<50000, 200000>>), << <<"official_quality", 50>> >>, n, TRUE>> : n \in {1, 10} }
    \cup { <<(<<1, 10>>), <<>>, 10, TRUE>>,
            <<(<<100000, 500000>>), << <<"official_quality", 50>> >>, 2, FALSE>> }
    \cup { <<(<<100000, 500000>>), <<>>, n, FALSE>> : n \in {0, 11} }

\* answers of a language model other than MockLLM: objects without a rank,
\* an object with a college_type outside the enumeration, one object instead
\* of an array, text that is no JSON
AnswerWithoutRanks ==
    [kind |-> "list",
     json |-> <<[college_name |-> NIT_SRINAGAR, source_links |-> <<NITSRI_LINK>>],
                [college_name |-> UNIVERSITY_OF_JAMMU,
                 programs |-> <<[seats_total |-> 60]>>]>>]

AnswerWithBadType ==
    [kind |-> "list",
     json |-> <<[rank |-> 1, college_name |-> NIT_SRINAGAR],
                [rank |-> 2, college_name |-> IIT_DELHI, college_type |-> "public"],
                [rank |-> 3, college_name |-> UNIVERSITY_OF_JAMMU,
                 accreditation |-> <<NAAC_A, UGC>>]>>]

AnswerOneObject ==
    [kind |-> "dict", json |-> [rank |-> 1, placement_stats |-> <<[year |-> 2023]>>]]

Line(label, text) == label \o <<" ">> \o text

AnswerInProse ==
    [kind |-> "text",
     lines |-> <<Line(RANK_COLON, <<"1">>), Line(COLLEGE_NAME_COLON, NIT_SRINAGAR),
                 Line(RANK_COLON, <<"2">>), Line(COLLEGE_NAME_COLON, UNIVERSITY_OF_JAMMU)>>]

AnswerOneName ==
    [kind |-> "text",
     lines |-> <<Line(RANK_COLON, <<"7">>) \o COMMA_SPACE \o Line(COLLEGE_NAME_COLON, TEST_COLLEGE)>>]

AnswerNoPair ==
    [kind |-> "text", lines |-> <<TEST_COLLEGE, Line(RANK_COLON, <<"1">>), RANK_COLON>>]

AnswerRequests ==
    { <<(<<100000, 500000>>), <<>>, 3, FALSE>>,
      <<(<<100000, 500000>>), << <<"relevance", 50>> >>, 3, TRUE>> }

\* preferences whose merge with the defaults sums to zero, below zero, and
\* above one, with a key outside the four factors
WeightRequests ==
    { <<(<<100000, 500000>>), p, 3, FALSE>> :
        p \in { << <<"placement", 0 - 100>> >>,
                << <<"official_quality", 0 - 70>> >>,
                << <<"official_quality", 0>>, <<"mentor_trust", 0>>,
                   <<"relevance", 0>>, <<"proximity", 0>> >>,
                << <<"official_quality", 50>>, <<"mentor_trust", 0 - 50>>,
                   <<"relevance", 0>>, <<"proximity", 0>> >>,
                << <<"relevance", 0 - 100>> >>,
                << <<"placement", 50>> >> } }

\* lists for _apply_preferences with sub-scores that differ: under the default
\* weights the composites are 7.0, 8.0, 7.0, 8.0
Scores(official_quality, mentor_trust, relevance, proximity) ==
    [official_quality |-> official_quality, mentor_trust |-> mentor_trust,
     relevance |-> relevance, proximity |-> proximity,
     composite_score |-> Composite(78, 10, FALSE), confidence |-> 80]

Scoring(rank, college_name, score) ==
    [CollegeRecommendation(rank, College(college_name, <<>>, <<>>, <<>>), <<>>)
        EXCEPT !.score = score]

ScoredLists ==
    { <<Scoring(1, IIT_DELHI, Scores(70, 70, 70, 70)),
        Scoring(2, DELHI_UNIVERSITY, Scores(80, 80, 80, 80)),
        Scoring(3, IISC_BANGALORE, Scores(80, 70, 60, 70)),
        Scoring(4, TEST_COLLEGE, Scores(90, 80, 70, 80))>>,
      <<Scoring(1, NIT_SRINAGAR, Scores(50, 90, 50, 90)),
        Scoring(1, UNIVERSITY_OF_JAMMU, Scores(90, 50, 90, 50)),
        Scoring(1, UNIVERSITY_OF_KASHMIR, Scores(70, 70, 70, 70))>>,
      <<Scoring(5, TEST_COLLEGE, Scores(100, 0, 0, 100))>>,
      <<>> }

ScoringPreferences ==
    { <<>>,
      << <<"official_quality", 100>> >>,
      << <<"mentor_trust", 100>>, <<"proximity", 50>> >>,
      << <<"relevance", 0 - 100>> >>,
      << <<"placement", 0 - 100>> >>,
      << <<"official_quality", 0 - 70>> >>,
      << <<"official_quality", 100>>, <<"mentor_trust", 0>>,
         <<"relevance", 100>>, <<"proximity", 0>> >>,
      << <<"official_quality", 50>>, <<"mentor_trust", 0>>,
         <<"relevance", 50>>, <<"proximity", 0>> >> }

\* a pool: the calls made on one service in a run.  claims and lists are the
\* direct calls of the verification service; stores, requests and answers are
\* the vector store, the requests of get_recommendations and what the language
\* model may answer; scored and preferences are the calls of _apply_preferences
PoolOf(claims, lists, stores, requests, answers, scored, preferences) ==
    [claims |-> claims, lists |-> lists, stores |-> stores, requests |-> requests,
     answers |-> answers, scored |-> scored, preferences |-> preferences]

Pools ==
    {PoolOf(c, {}, {}, {}, {}, {}, {}) : c \in ClaimPools}
        \cup {PoolOf({}, l, {}, {}, {}, {}, {}) : l \in RecommendationPools}
        \cup {PoolOf({<<Pct(<<"9","5",".","0">>), IISC_BANGALORE, PLACEMENT>>},
                     {<<CollegeRecommendation(1, CollegeAll, <<NIRF_LINK>>)>>},
                     {}, {}, {}, {}, {})}
        \cup {PoolOf({}, {}, {StoreOfSix, StoreOfTwo}, DemoRequests, {MockLLM}, {}, {}),
              PoolOf({}, {}, {StoreOfSix}, AnswerRequests,
                     {AnswerWithoutRanks, AnswerWithBadType, AnswerOneObject,
                      AnswerInProse, AnswerOneName, AnswerNoPair}, {}, {}),
              PoolOf({}, {}, {StoreOfSix}, WeightRequests, {MockLLM}, {}, {}),
              PoolOf({<<Pct(<<"9","5">>), IISC_BANGALORE, PLACEMENT>>}, {}, {StoreOfTwo},
                     {<<(<<100000, 500000>>), <<>>, 3, TRUE>>}, {AnswerWithoutRanks},
                     {}, {}),
              PoolOf({}, {}, {}, {}, {}, ScoredLists, ScoringPreferences)}

\* bounds of the runs
TickSeconds == 43200

MaxTicks == 2

MaxCitations == 5

(***************************************************************************)
(* The state machine.                                                      *)
(***************************************************************************)
Init ==
    /\ verification_cache = <<>>
    /\ now = 0
    /\ pool \in Pools
    /\ last_op = "init"
    /\ calls = <<>>
    /\ stored_by = <<>>
    /\ result = None
    /\ recs_before = <<>>
    /\ recommendations = <<>>
    /\ verification_results = <<>>
    /\ raised = FALSE
    /\ vectorstore = None
    /\ last_request = None
    /\ last_run = Started(<<>>)
    /\ last_rescoring = None
    /\ threads = <<>>

\* a direct call of verify_college_claim
VerifyCollegeClaim(claim, college_name, claim_type) ==
    \E out \in {verify_college_claim(verification_cache, claim, college_name, claim_type, now)} :
        /\ verification_cache' = out.cache
        /\ result' = out.ret
        /\ raised' = IsRaise(out.ret)
        /\ last_op' = "verify_college_claim"
        /\ calls' = <<CallRecord(out)>>
        /\ stored_by' = StoredAfter(stored_by, <<CallRecord(out)>>)
        /\ UNCHANGED <<threads, now, pool, recs_before, recommendations, verification_results,
                       vectorstore, last_request, last_run, last_rescoring>>

DirectCall == \E c \in pool.claims : VerifyCollegeClaim(c[1], c[2], c[3])

\* a call of verify_recommendations, on a list fresh from generation or on the
\* list an earlier call returned
VerifyRecommendations ==
    \E recs \in pool.lists \cup {recommendations} :
    \E out \in {verify_recommendations(recs, verification_cache, now)} :
        /\ recs # <<>>
        /\ \A i \in 1..Len(recs) : Len(recs[i].evidence_citations) <= MaxCitations
        /\ verification_cache' = out.cache
        /\ recs_before' = recs
        /\ recommendations' = out.done \o SubSeq(recs, Len(out.done) + 1, Len(recs))
        /\ verification_results' = out.results
        /\ raised' = out.raised
        /\ last_op' = "verify_recommendations"
        /\ calls' = out.calls
        /\ stored_by' = StoredAfter(stored_by, out.calls)
        /\ UNCHANGED <<threads, now, pool, result, vectorstore, last_request, last_run, last_rescoring>>

\* _load_college_data: create_vectorstore or load_existing_vectorstore
LoadCollegeData ==
    \E store \in pool.stores :
        /\ vectorstore = None
        /\ vectorstore' = store
        /\ last_op' = "_load_college_data"
        /\ calls' = <<>>
        /\ UNCHANGED <<threads, verification_cache, now, pool, stored_by, result, recs_before,
                       recommendations, verification_results, raised,
                       last_request, last_run, last_rescoring>>

\* the state after get_recommendations(request) ended as out
Requested(request, out) ==
    /\ last_op' = "get_recommendations"
    /\ last_request' = request
    /\ last_run' = out
    /\ verification_cache' = out.cache
    /\ calls' = out.calls
    /\ stored_by' = StoredAfter(stored_by, out.calls)
    /\ raised' = (out.ret = Raise("Exception"))
    /\ UNCHANGED <<threads, now, pool, result, recs_before, recommendations, verification_results,
                   vectorstore, last_rescoring>>

\* a caller builds a RecommendationRequest and, unless pydantic refuses it,
\* hands it to get_recommendations
GetRecommendations ==
    \E args \in pool.requests, response \in pool.answers :
    \E request \in {RecommendationRequest(args[1], args[2], args[3], args[4])} :
        IF IsRaise(request)
        THEN /\ last_op' = "RecommendationRequest"
             /\ last_request' = request
             /\ calls' = <<>>
             /\ UNCHANGED <<threads, verification_cache, now, pool, stored_by, result, recs_before,
                            recommendations, verification_results, raised, vectorstore,
                            last_run, last_rescoring>>
        ELSE Requested(request,
                 get_recommendations(request, vectorstore, response, verification_cache, now))

\* the list the last direct _apply_preferences returned, if it returned one
Rescorable ==
    IF "ret" \in DOMAIN last_rescoring /\ "value" \in DOMAIN last_rescoring.ret
    THEN {last_rescoring.ret.value}
    ELSE {}

\* a direct call of _apply_preferences, on a list of the pool or on the list
\* the call before returned
ApplyPreferences ==
    \E recs \in pool.scored \cup Rescorable, preferences \in pool.preferences :
        /\ last_op' = "_apply_preferences"
        /\ last_rescoring' = [recs |-> recs, preferences |-> preferences,
                              ret |-> _apply_preferences(recs, preferences)]
        /\ calls' = <<>>
        /\ UNCHANGED <<threads, verification_cache, now, pool, stored_by, result, recs_before,
                       recommendations, verification_results, raised, vectorstore,
                       last_request, last_run>>

\* the clock advances
Tick ==
    /\ now < MaxTicks * TickSeconds
    /\ now' = now + TickSeconds
    /\ last_op' = "tick"
    /\ calls' = <<>>
    /\ UNCHANGED <<threads, verification_cache, pool, stored_by, result,
                   recs_before, recommendations, verification_results, raised,
                   vectorstore, last_request, last_run, last_rescoring>>

Next ==
    \/ DirectCall
    \/ VerifyRecommendations
    \/ LoadCollegeData
    \/ GetRecommendations
    \/ ApplyPreferences
    \/ Tick

Spec == Init /\ [][Next]_vars

(***************************************************************************)
(* Threads of one process that share the service: each call of             *)
(* verify_college_claim is the steps check cache, compute, store.  Under   *)
(* the interpreter lock a dictionary lookup and a dictionary assignment    *)
(* are atomic, and a thread can be switched out between any two of them.   *)
(***************************************************************************)
NumThreads == 2

\* a thread outside verify_college_claim
Idle ==
    [pc |-> "idle", args |-> <<>>, cache_key |-> <<>>,
     verification_result |-> None, ret |-> None, hit |-> FALSE]

\* the triples the threads of a run call with: one triple from several threads,
\* triples with keys of their own, and triples whose keys coincide
ConcurrentClaimPools ==
    { {<<Pct(<<"9","8",".","3">>), IISC_BANGALORE, PLACEMENT>>,
       <<Pct(<<"5","0">>), IISC_BANGALORE, PLACEMENT>>,
       <<ACCREDITED_BY \o NBA, IIT_DELHI, ACCREDITATION>>},
      {<<RESEARCH, IIT_DELHI, GENERAL>>,
       <<RESEARCH, TEST_COLLEGE, GENERAL>>},
      {<<WithX(RESEARCH), DELHI_UNIVERSITY, GENERAL>>,
       <<RESEARCH, NamedX(DELHI_UNIVERSITY), GENERAL>>} }

InitConcurrent ==
    /\ verification_cache = <<>>
    /\ now = 0
    /\ pool \in {PoolOf(c, {}, {}, {}, {}, {}, {}) : c \in ConcurrentClaimPools}
    /\ last_op = "init"
    /\ calls = <<>>
    /\ stored_by = <<>>
    /\ result = None
    /\ recs_before = <<>>
    /\ recommendations = <<>>
    /\ verification_results = <<>>
    /\ raised = FALSE
    /\ vectorstore = None
    /\ last_request = None
    /\ last_run = Started(<<>>)
    /\ last_rescoring = None
    /\ threads = [t \in 1..NumThreads |-> Idle]

\* the variables a thread's step leaves alone, the cache apart
ThreadFrame ==
    UNCHANGED <<now, pool, last_op, calls, result, recs_before, recommendations,
                verification_results, raised, vectorstore, last_request, last_run,
                last_rescoring>>

\* a thread enters verify_college_claim: cache_key = f"{college_name}_{claim}_{claim_type}"
Enter(t) ==
    \E c \in pool.claims :
        /\ threads[t].pc = "idle"
        /\ threads' = [threads EXCEPT ![t] =
              [Idle EXCEPT !.pc = "check", !.args = c,
                           !.cache_key = CacheKey(c[1], c[2], c[3])]]
        /\ UNCHANGED <<verification_cache, stored_by>>
        /\ ThreadFrame

\* if cache_key in self.verification_cache: ... if self._is_cache_valid(cached_result):
\* return cached_result
CheckCache(t) ==
    /\ threads[t].pc = "check"
    /\ threads' = [threads EXCEPT ![t] =
          IF /\ threads[t].cache_key \in DOMAIN verification_cache
             /\ _is_cache_valid(verification_cache[threads[t].cache_key], now)
          THEN [@ EXCEPT !.pc = "returned", !.hit = TRUE,
                         !.ret = verification_cache[threads[t].cache_key]]
          ELSE [@ EXCEPT !.pc = "compute"]]
    /\ UNCHANGED <<verification_cache, stored_by>>
    /\ ThreadFrame

\* verification_result = self._perform_verification(claim, college_name, claim_type)
Compute(t) ==
    /\ threads[t].pc = "compute"
    /\ \E out \in {_perform_verification(threads[t].args[1], threads[t].args[2],
                                         threads[t].args[3], now)} :
          threads' = [threads EXCEPT ![t] =
              IF IsRaise(out) THEN [@ EXCEPT !.pc = "raised", !.ret = out]
              ELSE [@ EXCEPT !.pc = "store", !.verification_result = out]]
    /\ UNCHANGED <<verification_cache, stored_by>>
    /\ ThreadFrame

\* self.verification_cache[cache_key] = verification_result; return verification_result
Store(t) ==
    /\ threads[t].pc = "store"
    /\ verification_cache' =
          (threads[t].cache_key :> threads[t].verification_result) @@ verification_cache
    /\ stored_by' = (threads[t].cache_key :> threads[t].args) @@ stored_by
    /\ threads' = [threads EXCEPT ![t] =
          [@ EXCEPT !.pc = "returned", !.ret = threads[t].verification_result]]
    /\ ThreadFrame

NextConcurrent ==
    \/ \E t \in 1..NumThreads : Enter(t)
    \/ \E t \in 1..NumThreads : CheckCache(t)
    \/ \E t \in 1..NumThreads : Compute(t)
    \/ \E t \in 1..NumThreads : Store(t)
    \/ Tick

SpecConcurrent == InitConcurrent /\ [][NextConcurrent]_vars

(***************************************************************************)
(* Properties of the cache.                                                *)
(***************************************************************************)
\* C1: a call whose triple stored the entry under its key, while that entry is
\* younger than the TTL, returns the stored result unchanged (same verified,
\* confidence, source, notes and timestamp), does not recompute and leaves the
\* entry as it was.  Stated over every call of a step, direct or made by
\* verify_recommendations, against the cache the step started from.
CacheHitReturnsStored ==
    [][\A i \in 1..Len(calls') :
        LET c == calls'[i]
        IN  (/\ c.key \in DOMAIN verification_cache
             /\ stored_by[c.key] = c.args
             /\ now - verification_cache[c.key].verification_date < cache_duration)
            => /\ c.hit
               /\ c.ret = verification_cache[c.key]
               /\ verification_cache'[c.key] = verification_cache[c.key]]_vars

\* a direct call answered from an entry its own triple stored earlier
CacheHitSeen ==
    /\ last_op = "verify_college_claim"
    /\ calls[1].hit
    /\ stored_by[calls[1].key] = calls[1].args
    /\ result = verification_cache[calls[1].key]
    /\ result.verification_date < now

\* C2: expiry is measured from the verification timestamp of the stored result.
\* An entry is live exactly while now - timestamp < 24 hours: while live every
\* call on its key is a hit that leaves it (and its timestamp) as it was; once
\* expired it stays in the cache until the first call on its key, which
\* recomputes, returns a result stamped now and overwrites the entry.  No
\* entry ever leaves the cache.
ExpiryFromTimestamp ==
    [][\A k \in DOMAIN verification_cache :
        LET e == verification_cache[k]
            on_k == {i \in 1..Len(calls') : calls'[i].key = k}
        IN  /\ k \in DOMAIN verification_cache'
            /\ (now - e.verification_date < 24 * 60 * 60)
                   => /\ verification_cache'[k] = e
                      /\ \A i \in on_k : calls'[i].hit /\ calls'[i].ret = e
            /\ (now - e.verification_date >= 24 * 60 * 60)
                   => IF on_k = {} THEN verification_cache'[k] = e
                      ELSE /\ ~calls'[Min(on_k)].hit
                           /\ calls'[Min(on_k)].ret.verification_date = now
                           /\ verification_cache'[k] = calls'[Min(on_k)].ret]_vars

\* a direct call that found an expired entry, recomputed and overwrote it
ExpiredEntryRecomputed ==
    /\ last_op = "verify_college_claim"
    /\ calls[1].stale
    /\ ~calls[1].hit
    /\ result.verification_date = now
    /\ now >= 24 * 60 * 60
    /\ verification_cache[calls[1].key] = result

(***************************************************************************)
(* Properties of the per-type checks, read off the result of a direct call *)
(* verify_college_claim(claim, college_name, claim_type).                  *)
(***************************************************************************)
\* the last operation was a direct call with this claim type
DirectCallOf(claim_type) ==
    /\ last_op = "verify_college_claim"
    /\ calls[1].args[3] = claim_type

\* the claim text of the last direct call holds a percentage and the college has
\* a reference placement figure within 5.0 points of it
PlacementWithinTolerance ==
    /\ SearchPercent(calls[1].args[1]).matched
    /\ calls[1].args[2] \in DOMAIN nirf_database
    /\ WithinFivePoints(PyFloat(SearchPercent(calls[1].args[1]).group1),
                        nirf_database[calls[1].args[2]].placement)

\* C3: a placement call whose claim holds a percentage within 5.0 points
\* (5.0 included) of the college's reference placement percentage returns
\* verified = true with confidence 0.9.
PlacementWithinToleranceVerified ==
    (DirectCallOf(PLACEMENT) /\ PlacementWithinTolerance)
        => (result.verified /\ result.confidence = 90)

\* C4: a placement call whose claimed percentage is more than 5.0 points away
\* from the reference, or whose college has no reference placement figure,
\* returns verified = false with confidence 0.3, never confidence 0.
PlacementUnverifiedConfidence ==
    (/\ DirectCallOf(PLACEMENT)
     /\ \/ calls[1].args[2] \notin DOMAIN nirf_database
        \/ SearchPercent(calls[1].args[1]).matched /\ ~PlacementWithinTolerance)
        => (~result.verified /\ result.confidence = 30)

\* the vocabulary tokens that appear in the claim text
ClaimedTokens(claim) == {tok \in {NAAC, NBA, AICTE, UGC} : Contains(claim, tok)}

\* the reference accreditation list of a college, UGC and AICTE tables combined
ReferenceAccreditations(college_name) ==
    {a \in {NAAC, NBA, AICTE, UGC, NAAC_A_PLUS_PLUS} :
        \/ /\ college_name \in DOMAIN ugc_database
           /\ InList(a, ugc_database[college_name].accreditation)
        \/ /\ college_name \in DOMAIN aicte_database
           /\ InList(a, aicte_database[college_name].accreditation)}

\* C5: an accreditation call returns verified = true with confidence 0.95 when
\* every claimed token is in the reference list, verified = true with
\* confidence 0.7 when some but not all are, and verified = false with
\* confidence 0.8 when tokens are claimed and none is in the reference list.
AccreditationOutcomeByTokens ==
    DirectCallOf(ACCREDITATION) =>
        LET T == ClaimedTokens(calls[1].args[1])
            R == ReferenceAccreditations(calls[1].args[2])
        IN  /\ T \subseteq R => (result.verified /\ result.confidence = 95)
            /\ (T \cap R # {} /\ ~(T \subseteq R))
                   => (result.verified /\ result.confidence = 70)
            /\ (T # {} /\ T \cap R = {})
                   => (~result.verified /\ result.confidence = 80)

\* the claim matches "Offers X with N seats", the college has reference program
\* data and a reference program whose name holds X has seats within 10 of N
ProgramMatchesReference(claim, college_name) ==
    /\ SearchOffers(claim).matched
    /\ Truthy(_fetch_program_data(college_name))
    /\ Len(SearchOffers(claim).group2) <= 9
    /\ \E p \in 1..Len(_fetch_program_data(college_name).programs) :
          LET program == _fetch_program_data(college_name).programs[p]
          IN  /\ Contains(PyLower(program.name), PyLower(SearchOffers(claim).group1))
              /\ Abs(DigitsValue(SearchOffers(claim).group2) - program.seats) <= 10

\* C6: a program call returns verified = true with confidence 0.9 exactly when
\* the claim matches "Offers X with N seats", the college has reference program
\* data and a reference program named X has seats within 10 of N (10 included);
\* in every other case it returns verified = false.
ProgramVerifiedExactlyWhen ==
    DirectCallOf(PROGRAM) =>
        IF ProgramMatchesReference(calls[1].args[1], calls[1].args[2])
        THEN result.verified /\ result.confidence = 90
        ELSE ~result.verified

\* the per-source results for a claim that verify it
VerifiedBySources(claim, college_name) ==
    SelectSeq(<<_verify_nirf_data(claim, college_name, 0),
                _verify_ugc_data(claim, college_name, 0),
                _verify_aicte_data(claim, college_name, 0)>>, LAMBDA r : r.verified)

\* C7: a call of type general, or of any type other than placement,
\* accreditation and program, returns the verified per-source result (NIRF,
\* UGC, AICTE) of the highest confidence; when no source verifies the claim it
\* returns verified = false, confidence 0.0 and the note that no source
\* corroborated the claim.
GeneralBestVerifiedSource ==
    (/\ last_op = "verify_college_claim"
     /\ calls[1].args[3] \notin {PLACEMENT, ACCREDITATION, PROGRAM})
        => LET V == VerifiedBySources(calls[1].args[1], calls[1].args[2])
           IN  IF V = <<>>
               THEN /\ ~result.verified
                    /\ result.confidence = 0
                    /\ result.notes.text = "Could not verify claim against government sources"
               ELSE /\ result.verified
                    /\ \E i \in 1..Len(V) :
                          /\ V[i].source = result.source
                          /\ V[i].confidence = result.confidence
                          /\ \A k \in 1..Len(V) : V[k].confidence <= V[i].confidence

(***************************************************************************)
(* Properties of the error handling and of verify_recommendations.         *)
(***************************************************************************)
\* the computing call c ran into an error inside its check
InternalError(c) ==
    /\ ~c.hit
    /\ c.args[3] = PROGRAM
    /\ IsRaise(_verify_program_try(c.args[1], c.args[2], 0))

\* C8: verification is fail-soft.  No call of verify_college_claim raises,
\* whatever the claim text, the college name and the claim type: it returns a
\* VerificationResult.  A call whose check failed internally returns
\* verified = false, confidence 0.0 and a note, and verify_recommendations
\* processes every recommendation of its list.
NeverRaises ==
    /\ raised = FALSE
    /\ \A i \in 1..Len(calls) :
          /\ ~IsRaise(calls[i].ret)
          /\ DOMAIN calls[i].ret =
                 {"claim", "verified", "confidence", "source", "verification_date", "notes"}
          /\ calls[i].ret.verified \in BOOLEAN
          /\ calls[i].ret.confidence \in 0..100
          /\ InternalError(calls[i])
                 => /\ ~calls[i].ret.verified
                    /\ calls[i].ret.confidence = 0
                    /\ calls[i].ret.notes.text # ""
    /\ last_op = "verify_college_claim" => result = calls[1].ret
    /\ last_op = "verify_recommendations"
          => /\ Len(recommendations) = Len(recs_before)
             /\ Len(verification_results) = Len(recs_before)
             /\ \A i \in 1..Len(recommendations) :
                   recommendations[i].verification_status
                       \in {"no_claims", "verified", "partially_verified", "flagged"}

\* verify_recommendations met an internal error on its first recommendation
\* and went on to check the second
InternalErrorSurvived ==
    /\ last_op = "verify_recommendations"
    /\ Len(recommendations) = 2
    /\ InternalError(calls[1])
    /\ ~calls[1].ret.verified
    /\ recommendations[1].verification_status = "flagged"
    /\ Len(verification_results[2]) = 1
    /\ recommendations[2].verification_status = "verified"

\* the number of verified results among rs
VerifiedCount(rs) == Cardinality({j \in 1..Len(rs) : rs[j].verified})

ExpectedChecks(college) ==
    (IF college.placement_stats # <<>>
     THEN <<<<PLACEMENT, PlacementClaim(college)>>>> ELSE <<>>)
    \o (IF college.accreditation # <<>>
        THEN <<<<ACCREDITATION, AccreditationClaim(college)>>>> ELSE <<>>)
    \o (IF college.programs # <<>>
        THEN <<<<PROGRAM, ProgramClaim(college)>>>> ELSE <<>>)

\* the number of calls the last verify_recommendations made before it reached
\* recommendation i
RECURSIVE CallsBefore(_)
CallsBefore(i) ==
    IF i = 1 THEN 0 ELSE CallsBefore(i - 1) + Len(verification_results[i - 1])

\* C10: per recommendation, verify_recommendations checks the placement claim
\* iff placement stats exist, the accreditation claim iff an accreditation is
\* listed and the first program's claim iff a program exists, in that order,
\* and appends one confidence-summary line per checked claim, in that order,
\* after the citations that were there, which keep their content and position.
CitationsAppended ==
    last_op = "verify_recommendations" =>
        /\ Len(recommendations) = Len(recs_before)
        /\ Len(verification_results) = Len(recs_before)
        /\ Len(calls) = CallsBefore(Len(recs_before) + 1)
        /\ \A i \in 1..Len(recs_before) :
              LET before == recs_before[i].evidence_citations
                  after == recommendations[i].evidence_citations
                  checks == ExpectedChecks(recs_before[i].college)
                  rs == verification_results[i]
              IN  /\ Len(rs) = Len(checks)
                  /\ \A j \in 1..Len(checks) :
                        /\ calls[CallsBefore(i) + j].args =
                               <<checks[j][2], recs_before[i].college.name, checks[j][1]>>
                        /\ calls[CallsBefore(i) + j].ret = rs[j]
                  /\ Len(after) = Len(before) + Len(checks)
                  /\ SubSeq(after, 1, Len(before)) = before
                  /\ \A j \in 1..Len(checks) :
                        after[Len(before) + j] = CitationLine(rs[j])

\* a recommendation that came with citations had all three claims checked, and
\* another of the same list had fewer
CitationsAppendedSeen ==
    /\ last_op = "verify_recommendations"
    /\ \E i \in 1..Len(recs_before) :
          /\ recs_before[i].evidence_citations # <<>>
          /\ Len(verification_results[i]) = 3
          /\ Len(recommendations[i].evidence_citations)
                 = Len(recs_before[i].evidence_citations) + 3
    /\ \E i \in 1..Len(recs_before) : Len(verification_results[i]) < 3

(***************************************************************************)
(* Scoring, ranking, filtering and truncation in get_recommendations.      *)
(***************************************************************************)
\* the last operation was get_recommendations and it returned a list
RequestReturned == last_op = "get_recommendations" /\ "value" \in DOMAIN last_run.ret

\* the list it returned
Returned == last_run.ret.value

\* the weight of a factor as the specification merges it: the request's value
\* for a key it carries, the default otherwise
FactorWeight(preferences, factor) ==
    IF DictHas(preferences, factor) THEN DictGet(preferences, factor)
    ELSE DictGet(default_weights, factor)

Factors == <<"official_quality", "mentor_trust", "relevance", "proximity">>

FactorWeightSum(preferences) ==
    FactorWeight(preferences, Factors[1]) + FactorWeight(preferences, Factors[2])
        + FactorWeight(preferences, Factors[3]) + FactorWeight(preferences, Factors[4])

\* sub-scores (tenths) times merged weights (hundredths), summed over the factors
FactorWeightedSum(score, preferences) ==
    score.official_quality * FactorWeight(preferences, Factors[1])
        + score.mentor_trust * FactorWeight(preferences, Factors[2])
        + score.relevance * FactorWeight(preferences, Factors[3])
        + score.proximity * FactorWeight(preferences, Factors[4])

\* composite = weighted sum / weight sum, for a composite kept as num / den and
\* sub-scores kept in tenths
IsNormalizedWeightedSum(score, preferences) ==
    /\ FactorWeightSum(preferences) # 0
    /\ ~score.composite_score.tiny
    /\ score.composite_score.num * 10 * FactorWeightSum(preferences)
           = score.composite_score.den * FactorWeightedSum(score, preferences)

\* C11: in every list get_recommendations returns, with or without preference
\* overrides, each composite_score is the sum of sub-score times weight over the
\* four factors, the weights being the defaults with the request's values in
\* place of the matching keys, normalized to sum to 1; the composite the
\* generation step proposed is never what is returned.
CompositeIsWeightedSum ==
    RequestReturned =>
        \A i \in 1..Len(Returned) :
            IsNormalizedWeightedSum(Returned[i].score, last_request.preferences)

\* with overrides of the four factors only, the returned composites are the
\* normalized weighted sums
CompositeIsWeightedSumWithOverrides ==
    (/\ RequestReturned
     /\ last_request.preferences # <<>>
     /\ \A j \in 1..Len(last_request.preferences) :
            \E f \in 1..4 : last_request.preferences[j][1] = Factors[f]
     /\ FactorWeightSum(last_request.preferences) # 0)
        => \A i \in 1..Len(Returned) :
               IsNormalizedWeightedSum(Returned[i].score, last_request.preferences)

\* the sign of an integer
Sign(x) == IF x > 0 THEN 1 ELSE IF x < 0 THEN 0 - 1 ELSE 0

\* the sign of a - b for two composites num / den
CompositeOrder(a, b) == Sign(a.num * b.den - b.num * a.den) * Sign(a.den) * Sign(b.den)

\* where the recommendation for the college of rec stands in recs
PositionOf(recs, rec) == CHOOSE j \in 1..Len(recs) : recs[j].college = rec.college

\* after is before, reordered by composite descending, equal composites in the
\* order of before
IsStableDescending(before, after) ==
    /\ Len(after) = Len(before)
    /\ \A i \in 1..Len(after) : \E j \in 1..Len(before) : before[j].college = after[i].college
    /\ \A i, j \in 1..Len(after) :
          i < j =>
              /\ CompositeOrder(after[i].score.composite_score,
                                after[j].score.composite_score) >= 0
              /\ CompositeOrder(after[i].score.composite_score,
                                after[j].score.composite_score) = 0
                    => PositionOf(before, after[i]) < PositionOf(before, after[j])

\* the last operation was _apply_preferences, called directly, and it returned
Rescored == last_op = "_apply_preferences" /\ "value" \in DOMAIN last_rescoring.ret

\* C12: after re-scoring, the list is ordered by composite score descending and
\* recommendations of equal composite keep the order in which the generation
\* step produced them, whatever the list and the weights.
SortedDescendingStable ==
    /\ Rescored => IsStableDescending(last_rescoring.recs, last_rescoring.ret.value)
    /\ (RequestReturned /\ InList("scoring", last_run.stages))
          => IsStableDescending(last_run.generated, last_run.ranked)

\* a re-scoring that moved recommendations and left two of equal composite
TiesKeptInOrder ==
    /\ Rescored
    /\ \E i \in 1..Len(last_rescoring.recs) :
          last_rescoring.ret.value[i].college # last_rescoring.recs[i].college
    /\ \E i, j \in 1..Len(last_rescoring.recs) :
          /\ i < j
          /\ CompositeOrder(last_rescoring.ret.value[i].score.composite_score,
                            last_rescoring.ret.value[j].score.composite_score) = 0

\* C13: in every list of N recommendations get_recommendations returns, with or
\* without preference overrides and with or without truncation, the ranks are
\* exactly 1..N in list order.
RanksAreDense ==
    RequestReturned => \A i \in 1..Len(Returned) : Returned[i].rank = i

\* the ranks are 1..N whenever the scoring stage ran
RanksAreDenseAfterScoring ==
    (RequestReturned /\ InList("scoring", last_run.stages))
        => \A i \in 1..Len(Returned) : Returned[i].rank = i

\* the last operation was get_recommendations and its retrieval step returned
RetrievalReturned == last_op = "get_recommendations" /\ InList("generation", last_run.stages)

\* the positions of the retrieved documents whose fee range [M1, M2] overlaps
\* the budget [B1, B2] of the request: M1 <= B2 and M2 >= B1
Overlapping ==
    {i \in 1..Len(last_run.retrieved_docs) :
        /\ last_run.retrieved_docs[i].metadata.min_fees
              <= last_request.student_profile.budget_range[2]
        /\ last_run.retrieved_docs[i].metadata.max_fees
              >= last_request.student_profile.budget_range[1]}

\* C14: the budget post-filter keeps a retrieved document with fees [M1, M2]
\* for a budget [B1, B2] exactly when M1 <= B2 and M2 >= B1, the equalities
\* M1 = B2 and M2 = B1 included; the kept documents are a subsequence of the
\* retrieved documents, in their order.
BudgetFilterKeepsOverlapping ==
    RetrievalReturned =>
        /\ Len(last_run.candidates) = Cardinality(Overlapping)
        /\ \A n \in 1..Len(last_run.candidates) :
              \E i \in Overlapping :
                  /\ Cardinality({j \in Overlapping : j < i}) = n - 1
                  /\ last_run.candidates[n] = last_run.retrieved_docs[i]

\* a request whose filter kept a document with M1 = B2 and one with M2 = B1,
\* and dropped others
BoundaryFeesKept ==
    /\ RetrievalReturned
    /\ \E n \in 1..Len(last_run.candidates) :
          last_run.candidates[n].metadata.min_fees
              = last_request.student_profile.budget_range[2]
    /\ \E n \in 1..Len(last_run.candidates) :
          last_run.candidates[n].metadata.max_fees
              = last_request.student_profile.budget_range[1]
    /\ Len(last_run.candidates) < Len(last_run.retrieved_docs)
    /\ Len(last_run.candidates) >= 2

\* C15: when the budget post-filter leaves no candidate document,
\* get_recommendations returns the empty list: no fallback to the unfiltered
\* documents, no recommendations made from no candidates.
NoCandidatesNoRecommendations ==
    (RequestReturned /\ last_run.candidates = <<>>) => Returned = <<>>

\* the names of the colleges whose documents survived the budget post-filter
CandidateNames ==
    {last_run.candidates[n].metadata.college_name : n \in 1..Len(last_run.candidates)}

\* C16: every college in the list get_recommendations returns is one of the
\* candidates that survived the budget post-filter of the request; the list is
\* never padded with colleges filtered out or never retrieved.
ReturnedAreCandidates ==
    RequestReturned =>
        \A i \in 1..Len(Returned) : Returned[i].college.name \in CandidateNames

\* C17: the list get_recommendations returns is at most max_recommendations
\* long, max_recommendations being in 1..10; it is the prefix of the ranked
\* list, so truncation keeps the best-ranked recommendations in their order.
ReturnsRankedPrefix ==
    RequestReturned =>
        /\ last_request.max_recommendations \in 1..10
        /\ Len(Returned) <= last_request.max_recommendations
        /\ Len(Returned) <= Len(last_run.ranked)
        /\ Len(Returned) = last_request.max_recommendations
              \/ Len(Returned) = Len(last_run.ranked)
        /\ \A i \in 1..Len(Returned) : Returned[i] = last_run.ranked[i]

\* a request that cut a re-scored list of three down to one, after requests
\* with max_recommendations outside 1..10 were refused
TruncatedToOne ==
    /\ RequestReturned
    /\ last_request.max_recommendations = 1
    /\ Len(last_run.ranked) = 3
    /\ InList("scoring", last_run.stages)
    /\ Len(Returned) = 1

\* RecommendationRequest refuses max_recommendations = 0 and = 11
RequestRefused == last_op = "RecommendationRequest" /\ IsRaise(last_request)

\* C18: a request that reaches the retrieval step while the vector store is
\* not initialized ends with an explicit error: get_recommendations returns no
\* list, runs no generation, scoring or verification, and leaves the
\* verification cache as it was.
MissingStoreIsAnError ==
    [][(last_op' = "get_recommendations" /\ vectorstore = None)
          => /\ last_run'.ret = Raise("ValueError")
             /\ last_run'.stages = <<"retrieval">>
             /\ calls' = <<>>
             /\ verification_cache' = verification_cache]_vars

\* a request for verified recommendations refused for want of a store, on a
\* service whose cache holds an entry
RefusedWithoutStore ==
    /\ last_op = "get_recommendations"
    /\ vectorstore = None
    /\ IsRaise(last_run.ret)
    /\ last_request.include_verification
    /\ verification_cache # <<>>

\* the last operation was get_recommendations and the answer of its generation
\* step was no JSON
AnswerUnparsed ==
    /\ last_op = "get_recommendations"
    /\ InList("generation", last_run.stages)
    /\ last_run.response.kind = "text"

\* the rank/name pairs the two patterns find in the answer
MatchedPairs ==
    Min({Len(FindAll(last_run.response.lines, RankMatch)),
         Len(FindAll(last_run.response.lines, CollegeMatch))})

\* C19: when the answer of the generation step cannot be parsed as structured
\* data, generate_recommendations does not raise: it returns one
\* recommendation per matched rank/name pair, every other field a neutral
\* default (mid-range sub-scores, status 'pending'), and the empty list when no
\* pair matches.
UnparsedAnswerRecovered ==
    AnswerUnparsed =>
        /\ RequestReturned
        /\ Len(last_run.generated) = MatchedPairs
        /\ \A i \in 1..Len(last_run.generated) :
              /\ last_run.generated[i].verification_status = "pending"
              /\ last_run.generated[i].score.official_quality = 70
              /\ last_run.generated[i].score.mentor_trust = 70
              /\ last_run.generated[i].score.relevance = 70
              /\ last_run.generated[i].score.proximity = 70

\* an unparsed answer without a rank/name pair gives the empty list
NoPairEmptyList ==
    (AnswerUnparsed /\ MatchedPairs = 0) => (RequestReturned /\ Returned = <<>>)

\* the weights of a request merged over the defaults sum to zero
MergedSumIsZero(preferences) == SumSeq(DictValues(DictMerge(default_weights, preferences))) = 0

\* C20: when the merged weight vector, the defaults overridden by the request's
\* preferences, sums to 0, the request is rejected with an error: no list is
\* returned and no composite score, order or rank is modified by the failed
\* re-scoring.
ZeroWeightSumRejected ==
    /\ (last_op = "_apply_preferences" /\ MergedSumIsZero(last_rescoring.preferences))
          => IsRaise(last_rescoring.ret)
    /\ (/\ last_op = "get_recommendations"
        /\ InList("scoring", last_run.stages)
        /\ MergedSumIsZero(last_request.preferences))
          => /\ IsRaise(last_run.ret)
             /\ last_run.ranked = last_run.generated

\* a merged weight vector whose additions leave exactly 0.0 is rejected, with
\* nothing modified
FloatZeroSumRejected ==
    /\ (/\ last_op = "_apply_preferences"
        /\ FloatIsZero(PySum(DictValues(DictMerge(default_weights, last_rescoring.preferences)))))
          => last_rescoring.ret = Raise("ZeroDivisionError")
    /\ (/\ last_op = "get_recommendations"
        /\ InList("scoring", last_run.stages)
        /\ FloatIsZero(PySum(DictValues(DictMerge(default_weights, last_request.preferences)))))
          => /\ last_run.ret = Raise("ZeroDivisionError")
             /\ last_run.ranked = last_run.generated

(***************************************************************************)
(* Score ranges, idempotence, cache keys, verification status, stage       *)
(* order, frame conditions and concurrent calls.                           *)
(***************************************************************************)
\* 0 <= num / den <= 10 for a composite that is not a rounding residue's quotient
CompositeInRange(c) ==
    /\ ~c.tiny \/ c.num = 0
    /\ Sign(c.num) * Sign(c.den) >= 0
    /\ Sign(c.num) * c.num <= 10 * Sign(c.den) * c.den

\* the declared ranges of RecommendationScore, sub-scores in tenths and
\* confidence in hundredths
ScoreInRange(score) ==
    /\ score.official_quality \in 0..100
    /\ score.mentor_trust \in 0..100
    /\ score.relevance \in 0..100
    /\ score.proximity \in 0..100
    /\ score.confidence \in 0..100
    /\ CompositeInRange(score.composite_score)

\* C21: every RecommendationScore in a returned result keeps its declared
\* ranges, sub-scores and composite in [0, 10] and confidence in [0, 1], after
\* re-scoring with any preference map the request model accepts, negative
\* weights and keys other than the four factors included.
ScoresStayInRange ==
    RequestReturned => \A i \in 1..Len(Returned) : ScoreInRange(Returned[i].score)

\* with weights that are all non-negative the ranges are kept
ScoresStayInRangeNonNegative ==
    (/\ RequestReturned
     /\ \A j \in 1..Len(last_request.preferences) : last_request.preferences[j][2] >= 0)
        => \A i \in 1..Len(Returned) : ScoreInRange(Returned[i].score)

\* two re-scored lists agree: the same colleges in the same order, with the
\* same ranks and composites of the same value
SameRescoring(a, b) ==
    /\ Len(a) = Len(b)
    /\ \A i \in 1..Len(a) :
          /\ a[i].college = b[i].college
          /\ a[i].rank = b[i].rank
          /\ a[i].score.composite_score.tiny = b[i].score.composite_score.tiny
          /\ CompositeOrder(a[i].score.composite_score, b[i].score.composite_score) = 0

\* the preference map sets the four factors, to weights that are non-negative
\* and not all zero
IsWeightVector(preferences) ==
    /\ Len(preferences) = 4
    /\ \A f \in 1..4 : preferences[f][1] = Factors[f] /\ preferences[f][2] >= 0
    /\ FactorWeightSum(preferences) > 0

\* normal is the weight vector w divided by its sum
IsNormalizationOf(normal, w) ==
    /\ IsWeightVector(w)
    /\ IsWeightVector(normal)
    /\ \A f \in 1..4 : normal[f][2] * FactorWeightSum(w) = w[f][2] * 100

RescoredNormalized ==
    /\ Rescored
    /\ Len(last_rescoring.recs) >= 3
    /\ IsNormalizationOf(last_rescoring.preferences, last_rescoring.preferences)

\* the calls of the last operation that were served from the cache
ServedFromCache == {i \in 1..Len(calls) : calls[i].hit /\ ~calls[i].stale}

\* C23: a result served from the verification cache for a triple
\* (college_name, claim_text, claim_type) was computed for exactly that triple,
\* and no call overwrites the entry another triple stored, whatever the strings
\* are, the separator character included.
CacheEntryOfOwnTriple ==
    [][/\ \A i \in 1..Len(calls') :
              (calls'[i].hit /\ ~calls'[i].stale)
                  => stored_by'[calls'[i].key] = calls'[i].args
       /\ \A k \in DOMAIN stored_by : stored_by'[k] = stored_by[k]]_vars

\* the same, for triples whose college name and claim text hold no underscore
CacheEntryOfOwnTripleNoSeparator ==
    [][/\ \A i \in 1..Len(calls') :
              (/\ calls'[i].hit
               /\ ~calls'[i].stale
               /\ ~Contains(calls'[i].args[1], <<"_">>)
               /\ ~Contains(calls'[i].args[2], <<"_">>)
               /\ ~Contains(stored_by'[calls'[i].key][1], <<"_">>)
               /\ ~Contains(stored_by'[calls'[i].key][2], <<"_">>))
                  => stored_by'[calls'[i].key] = calls'[i].args
       /\ \A k \in DOMAIN stored_by :
              (/\ ~Contains(stored_by[k][1], <<"_">>)
               /\ ~Contains(stored_by[k][2], <<"_">>)
               /\ ~Contains(stored_by'[k][1], <<"_">>)
               /\ ~Contains(stored_by'[k][2], <<"_">>))
                  => stored_by'[k] = stored_by[k]]_vars

TerminalStatuses == {"verified", "partially_verified", "flagged", "no_claims"}

\* every recommendation of the list has left verification
AllTerminal(recs) ==
    \A i \in 1..Len(recs) : recs[i].verification_status \in TerminalStatuses

\* the statuses are as generation and verification leave them: 'pending' after
\* generation, terminal for what verify_recommendations has processed
StatusesInPlace ==
    /\ last_op = "get_recommendations"
          => /\ \A i \in 1..Len(last_run.generated) :
                    last_run.generated[i].verification_status = "pending"
             /\ (RequestReturned /\ InList("verification", last_run.stages))
                    => AllTerminal(last_run.ranked) /\ AllTerminal(Returned)
    /\ last_op = "verify_recommendations"
          => \A i \in 1..Len(verification_results) :
                 (i < Len(verification_results) \/ ~raised)
                     => recommendations[i].verification_status \in TerminalStatuses

\* verify_recommendations is run again on the list it returned, and every
\* lookup of the second run finds a live cache entry
RerunOnLiveCache ==
    /\ last_op = "verify_recommendations"
    /\ ~raised
    /\ last_op' = "verify_recommendations"
    /\ ~raised'
    /\ recs_before' = recommendations
    /\ \A i \in 1..Len(calls') : calls'[i].hit /\ ~calls'[i].stale

StageOrder == <<"retrieval", "generation", "scoring", "verification">>

\* the colleges of a list, in its order
CollegesOf(recs) == [i \in 1..Len(recs) |-> recs[i].college]

\* b holds the recommendations of a, each once
SameColleges(a, b) ==
    /\ Len(a) = Len(b)
    /\ \E p \in [1..Len(a) -> 1..Len(a)] :
          /\ \A i, j \in 1..Len(a) : p[i] = p[j] => i = j
          /\ \A i \in 1..Len(a) : b[p[i]].college = a[i].college

\* C25: within one get_recommendations request each stage runs at most once
\* and in the order retrieve, budget post-filter, generate, re-score and rank,
\* verify, truncate: the candidates are taken from the retrieved documents, the
\* ranked list holds the generated recommendations, verification covers the
\* whole ranked list and not only the part that is returned, and the returned
\* list is cut from the verified ranked list.
StagesInOrder ==
    last_op = "get_recommendations" =>
        /\ \E pos \in [1..Len(last_run.stages) -> 1..Len(StageOrder)] :
              /\ \A i \in 1..Len(last_run.stages) : StageOrder[pos[i]] = last_run.stages[i]
              /\ \A i \in 1..(Len(last_run.stages) - 1) : pos[i] < pos[i + 1]
        /\ Len(last_run.stages) > 0 => last_run.stages[1] = "retrieval"
        /\ InList("scoring", last_run.stages) \/ InList("verification", last_run.stages)
              => InList("generation", last_run.stages)
        /\ \A i \in 1..Len(last_run.candidates) : InList(last_run.candidates[i], last_run.retrieved_docs)
        /\ RequestReturned =>
              /\ SameColleges(last_run.generated, last_run.ranked)
              /\ ~InList("scoring", last_run.stages)
                    => CollegesOf(last_run.ranked) = CollegesOf(last_run.generated)
              /\ InList("verification", last_run.stages)
                    => /\ Len(last_run.verification_results) = Len(last_run.generated)
                       /\ AllTerminal(last_run.ranked)
              /\ Returned = SubSeq(last_run.ranked, 1, Len(Returned))

\* a request that went through the four stages and returned fewer
\* recommendations than it verified
VerifiedMoreThanReturned ==
    /\ RequestReturned
    /\ last_run.stages = StageOrder
    /\ Len(Returned) = 1
    /\ Len(last_run.verification_results) >= 3
    /\ Len(last_run.candidates) < Len(last_run.retrieved_docs)
    /\ \E i \in 1..Len(last_run.ranked) :
          last_run.ranked[i].score.composite_score
              # last_run.generated[i].score.composite_score

\* the claims verify_recommendations checks for a college: one for the
\* placement statistics, one for the accreditations, one for the first program
ClaimsToCheck(college) ==
    (IF college.placement_stats # <<>> THEN 1 ELSE 0)
        + (IF college.accreditation # <<>> THEN 1 ELSE 0)
        + (IF college.programs # <<>> THEN 1 ELSE 0)

\* C26: verification is applied if and only if the request asks for it.  With
\* include_verification false the request leaves the verification cache as it
\* was and every returned recommendation has status 'pending' and the
\* evidence_citations generation gave it; with include_verification true every
\* recommendation of the ranked list is verified.
VerificationIffRequested ==
    [][(last_op' = "get_recommendations" /\ "value" \in DOMAIN last_run'.ret)
          => /\ ~last_request'.include_verification
                   => /\ verification_cache' = verification_cache
                      /\ last_run'.calls = <<>>
                      /\ ~InList("verification", last_run'.stages)
                      /\ \A i \in 1..Len(last_run'.ret.value) :
                            /\ last_run'.ret.value[i].verification_status = "pending"
                            /\ \E j \in 1..Len(last_run'.generated) :
                                  /\ last_run'.generated[j].college
                                        = last_run'.ret.value[i].college
                                  /\ last_run'.generated[j].evidence_citations
                                        = last_run'.ret.value[i].evidence_citations
             /\ last_request'.include_verification
                   => /\ InList("verification", last_run'.stages)
                      /\ Len(last_run'.verification_results) = Len(last_run'.ranked)
                      /\ \A i \in 1..Len(last_run'.ranked) :
                            /\ last_run'.ranked[i].verification_status \in TerminalStatuses
                            /\ Len(last_run'.verification_results[i])
                                  = ClaimsToCheck(last_run'.ranked[i].college)]_vars

\* a request without verification returns recommendations with citations while
\* the cache holds entries of an earlier request
UnverifiedOnFilledCache ==
    /\ RequestReturned
    /\ ~last_request.include_verification
    /\ DOMAIN verification_cache # {}
    /\ Len(Returned) >= 2
    /\ \A i \in 1..Len(Returned) : Returned[i].evidence_citations # <<>>

\* a request with verification returns verified recommendations
VerifiedOnRequest ==
    /\ RequestReturned
    /\ last_request.include_verification
    /\ Len(Returned) >= 2
    /\ ClaimsToCheck(Returned[1].college) = 3

\* the fields of a VerificationResult
IsCompleteResult(r) ==
    DOMAIN r = {"claim", "verified", "confidence", "source", "verification_date", "notes"}

\* r is what _perform_verification gives for the triple at a time up to now
IsResultFor(r, args) ==
    \E k \in 0..MaxTicks :
        /\ k * TickSeconds <= now
        /\ r = _perform_verification(args[1], args[2], args[3], k * TickSeconds)

\* C27: under any interleaving of concurrent verify_college_claim calls on one
\* shared service, each call being the steps check cache, compute, store,
\* every call returns a complete VerificationResult for its own triple, no
\* call sees a partly written entry, and the cache holds under each key one
\* complete result, written by the call that stored there last.
ConcurrentCallsServeOwnTriple ==
    /\ \A t \in DOMAIN threads :
          threads[t].pc = "returned"
              => /\ IsCompleteResult(threads[t].ret)
                 /\ IsResultFor(threads[t].ret, threads[t].args)
    /\ \A k \in DOMAIN verification_cache :
          /\ IsCompleteResult(verification_cache[k])
          /\ k \in DOMAIN stored_by
          /\ CacheKey(stored_by[k][1], stored_by[k][2], stored_by[k][3]) = k
          /\ IsResultFor(verification_cache[k], stored_by[k])

\* the same, for calls that share a key only when they share the triple
ConcurrentCallsServeOwnKey ==
    (\A c, d \in pool.claims :
        CacheKey(c[1], c[2], c[3]) = CacheKey(d[1], d[2], d[3]) => c = d)
        => ConcurrentCallsServeOwnTriple

\* a recommendation without the two fields verification writes
OutsideVerification(recommendation) ==
    [recommendation EXCEPT !.verification_status = "", !.evidence_citations = <<>>]

\* after is before, recommendation by recommendation, but for the verification
\* status and the citations
SameButVerification(before, after) ==
    /\ Len(after) = Len(before)
    /\ \A i \in 1..Len(before) :
          /\ OutsideVerification(after[i]) = OutsideVerification(before[i])
          /\ after[i].rank = before[i].rank
          /\ after[i].score = before[i].score
          /\ after[i].college = before[i].college
          /\ after[i].rationale = before[i].rationale
          /\ after[i].source_links = before[i].source_links

\* C28: verify_recommendations returns the recommendations it was given, in
\* the same order and number, and changes only verification_status and
\* evidence_citations: rank, score, college record, rationale and source_links
\* of every recommendation stay as they were.
VerificationFrame ==
    /\ (last_op = "verify_recommendations" /\ ~raised)
          => SameButVerification(recs_before, recommendations)
    /\ (RequestReturned /\ InList("verification", last_run.stages)
            /\ ~InList("scoring", last_run.stages))
          => SameButVerification(last_run.generated, last_run.ranked)

\* a list of three or more is verified: statuses and citations change, one
\* recommendation is flagged
VerifiedListChanged ==
    /\ last_op = "verify_recommendations"
    /\ ~raised
    /\ Len(recs_before) >= 3
    /\ \A i \in 1..Len(recs_before) :
          /\ recs_before[i].verification_status = "pending"
          /\ recommendations[i].verification_status # "pending"
    /\ \E i \in 1..Len(recs_before) :
          /\ recommendations[i].verification_status = "flagged"
          /\ recommendations[i].evidence_citations # recs_before[i].evidence_citations
    /\ \E i, j \in 1..Len(recs_before) : recs_before[i].rank # recs_before[j].rank

\* what the check of the call's type gave, before the aggregation
TypeCheck(args) ==
    IF args[3] = PLACEMENT THEN _verify_placement_claim(args[1], args[2], now)
    ELSE IF args[3] = ACCREDITATION THEN _verify_accreditation_claim(args[1], args[2], now)
    ELSE _verify_program_claim(args[1], args[2], now)

\* the confidences a caller can see
ObservableConfidence(r) ==
    IF r.verified THEN r.confidence \in {70, 80, 90, 95}
    ELSE r.confidence = 0 /\ r.source = "verification_failed"

\* C29: every result verify_college_claim returns, fresh or cached and for any
\* claim type, with verified = false has confidence 0.0 and source
\* 'verification_failed': the confidence and source the check of the type gave
\* to an unverified outcome are dropped by the aggregation, so callers see 0.0
\* for unverified results and 0.7, 0.8, 0.9 or 0.95 for verified ones.
UnverifiedIsZeroConfidence ==
    /\ \A i \in 1..Len(calls) :
          ~IsRaise(calls[i].ret) => ObservableConfidence(calls[i].ret)
    /\ (last_op = "verify_college_claim" /\ ~raised) => ObservableConfidence(result)
    /\ \A k \in DOMAIN verification_cache : ObservableConfidence(verification_cache[k])
    /\ \A i \in 1..Len(verification_results) :
          \A j \in 1..Len(verification_results[i]) :
              ObservableConfidence(verification_results[i][j])

\* a call returns an unverified result, fresh or from the cache, though the
\* check of its type gave the outcome a confidence above 0
UnverifiedAttemptDiscarded ==
    /\ last_op = "verify_college_claim"
    /\ ~raised
    /\ ~result.verified
    /\ calls[1].args[3] \in {PLACEMENT, ACCREDITATION, PROGRAM}
    /\ ~TypeCheck(calls[1].args).verified
    /\ TypeCheck(calls[1].args).confidence > 0
    /\ TypeCheck(calls[1].args).source # "verification_failed"

\* the same, from the cache
UnverifiedServedFromCache ==
    /\ UnverifiedAttemptDiscarded
    /\ calls[1].hit

\* the college names some reference table holds
ReferenceNames == DOMAIN nirf_database \cup DOMAIN ugc_database \cup DOMAIN aicte_database

\* the calls of the last operation made for recommendation i of the list
CallsFor(recs, i) ==
    {j \in 1..Len(calls) : calls[j].args[2] = recs[i].college.name}

\* C30: for a college name that no reference table holds, verify_college_claim
\* returns verified = false for every claim text and every claim type, and so a
\* recommendation for such a college with at least one checked claim is never
\* given the status 'verified' or 'partially_verified'.
UnknownCollegeNeverVerified ==
    /\ \A i \in 1..Len(calls) :
          (calls[i].args[2] \notin ReferenceNames /\ ~IsRaise(calls[i].ret))
              => ~calls[i].ret.verified
    /\ (last_op = "verify_recommendations" /\ ~raised)
          => \A i \in 1..Len(recommendations) :
                 (/\ recommendations[i].college.name \notin ReferenceNames
                  /\ verification_results[i] # <<>>)
                     => recommendations[i].verification_status
                            \notin {"verified", "partially_verified"}

\* the same as C30, for calls that compute their result and claims that name
\* one of NAAC, NBA, AICTE, UGC when they are accreditation claims
UnknownCollegeNeverVerifiedFresh ==
    \A i \in 1..Len(calls) :
        (/\ calls[i].args[2] \notin ReferenceNames
         /\ ~IsRaise(calls[i].ret)
         /\ ~calls[i].hit
         /\ calls[i].args[3] = ACCREDITATION => ClaimedTokens(calls[i].args[1]) # {})
            => ~calls[i].ret.verified

============================================================================
